---------------------------- MODULE Spec2Model ----------------------------
(***************************************************************************)
(* A model of rds_exporter: the RDS instance directory client with its     *)
(* tag filter and cache (src/aws/rds.rs), the CloudWatch time-series       *)
(* client with its retry loop (src/aws/cloudwatch.rs), the collection      *)
(* cycle (src/metrics/collector.rs) and the Prometheus gauge registry      *)
(* (src/metrics/prometheus_publisher.rs).                                  *)
(*                                                                         *)
(* Every await on a network call is a step of its own; the remote          *)
(* services answer each attempt with any outcome of a small set.           *)
(***************************************************************************)
EXTENDS Integers, Sequences, FiniteSets, TLC

VARIABLES
    retry_attempts,      \* MetricConfig.retry_attempts
    cwPc,                \* where CloudWatchCollector::collect_all_metrics stands
    cwInput,             \* the metrics argument of the call in progress
    cwQueries,           \* queries built by collect_all_metrics
    attempts,            \* call_with_retry: attempts
    last_error_message,  \* call_with_retry: last_error_message
    cwLog,               \* history: what each send() of this call ended with
    cwResult,            \* the value collect_all_metrics returned
    fleet,               \* the directory: the instances it lists
    fleetTags,           \* the directory: the tag list of each resource (by ARN)
    now,                 \* SystemTime::now(), a wall clock
    cache,               \* RdsInstanceManager.cache
    rdsPc,               \* where get_instances_by_tags stands
    filters,             \* the filters argument of the call in progress
    filtered_instances,  \* fetch_filtered_instances: filtered_instances
    next_token,          \* fetch_filtered_instances: next_token
    response,            \* the listing page being processed
    idx,                 \* position in response.db_instances
    rdsAttempts,         \* call_with_retry: attempts
    delay,               \* call_with_retry: delay
    last_error,          \* call_with_retry: last_error
    rdsOps,              \* history: network operations begun by the call in progress
    atCall,              \* history: the clock and the entry for filters when the call began
    rdsResult,           \* the value get_instances_by_tags returned
    rdsLog,              \* history: the tag lookups of the listing, as they ended
    failedOn,            \* history: the filters of the last call, when it found an
                         \* expired entry and its listing failed
    colPc,               \* where RdsMetricCollector::start_collection stands
    instances,           \* collect_and_publish: instances
    instPos,             \* position of the for loop over instances
    all_metrics,         \* collect_and_publish: all_metrics
    pubPos,              \* position of the for loop over publishers
    colListing,          \* history: how get_prd_instances ended, this cycle
    colResult,           \* history: what collect_and_publish returned, this cycle
    colLog,              \* history: the outcome of each instance's query, this cycle
    delivered,           \* history: the publish calls of this cycle
    METRICS,             \* static METRICS: the gauge of each series name
    REGISTRY,            \* static REGISTRY: the series names registered
    pubPc,               \* where PrometheusPublisher::publish stands
    pubBatch,            \* publish: the points still to process
    pubLog,              \* history: what publish did with each point of the batch
    pubBefore,           \* history: METRICS when the publish call began
    servePc,             \* where serve_metrics stands
    gathered,            \* serve_metrics: metrics, the cells REGISTRY.gather() returned
    everSet,             \* history: the cells set while requests are served
    lockHolder,          \* the handle that holds METRICS.write(), or 0
    thPc,                \* where the publish of each handle stands
    thPoint,             \* publish of each handle: the point it is on
    thResult             \* history: what get_or_create_metric returned to each handle

cwVars == <<retry_attempts, cwPc, cwInput, cwQueries, attempts,
            last_error_message, cwLog, cwResult>>

rdsVars == <<fleet, fleetTags, now, cache, rdsPc, filters, filtered_instances,
             next_token, response, idx, rdsAttempts, delay, last_error,
             rdsOps, atCall, rdsResult, rdsLog, failedOn>>

colVars == <<colPc, instances, instPos, all_metrics, pubPos, colListing,
             colResult, colLog, delivered>>

serveVars == <<servePc, gathered, everSet>>

thVars == <<lockHolder, thPc, thPoint, thResult>>

pubVars == <<METRICS, REGISTRY, pubPc, pubBatch, pubLog, pubBefore, serveVars,
             thVars>>

vars == <<cwVars, rdsVars, colVars, pubVars>>

\* what a step inside one component leaves alone
outsideRds == <<cwVars, colVars, pubVars>>
outsideCw == <<rdsVars, colVars, pubVars>>

(***************************************************************************)
(* Bounds of the model.                                                    *)
(***************************************************************************)
MaxRetryAttempts == 3
MaxTuples == 2
MaxResults == 2
MaxTime == 2
MaxTags == 2
MaxBatch == 2

\* tokio::time::timeout(Duration::from_secs(30), ...)
CallTimeout == 30

RECURSIVE SeqsUpTo(_, _)
SeqsUpTo(S, n) ==
    IF n = 0 THEN {<<>>}
    ELSE LET shorter == SeqsUpTo(S, n - 1)
         IN  shorter \cup {Append(s, x) : s \in {t \in shorter : Len(t) = n - 1}, x \in S}

Range(s) == {s[i] : i \in 1..Len(s)}

NoRepeat(s) == \A i, j \in 1..Len(s) : s[i] = s[j] => i = j

(***************************************************************************)
(* RdsInstanceManager (src/aws/rds.rs)                                     *)
(***************************************************************************)
\* RdsConfig::default(); main.rs overrides only the target tag. cache_ttl is
\* counted in clock steps of the model and page_size in instances of its
\* fleets, so that a listing takes two pages.
max_retries == 3
retry_delay == 1
cache_ttl == 1
page_size == 2

None == <<>>
Some(x) == <<x>>

\* Strings are sequences of characters, so that letter case can be compared.
UpperCase == <<"A", "B", "C", "D", "E", "F", "G", "H", "I", "J", "K", "L", "M",
               "N", "O", "P", "Q", "R", "S", "T", "U", "V", "W", "X", "Y", "Z">>
LowerCase == <<"a", "b", "c", "d", "e", "f", "g", "h", "i", "j", "k", "l", "m",
               "n", "o", "p", "q", "r", "s", "t", "u", "v", "w", "x", "y", "z">>

\* u8::to_ascii_lowercase
to_ascii_lowercase(c) ==
    IF \E i \in 1..Len(UpperCase) : UpperCase[i] = c
    THEN LowerCase[CHOOSE i \in 1..Len(UpperCase) : UpperCase[i] = c]
    ELSE c

\* str::eq_ignore_ascii_case: same length, bytes equal after lowercasing
eq_ignore_ascii_case(a, b) ==
    /\ Len(a) = Len(b)
    /\ \A i \in 1..Len(a) : to_ascii_lowercase(a[i]) = to_ascii_lowercase(b[i])

TagFilter(k, v) == [key |-> k, value |-> v]

matches_KeyOnly(filter, tags) ==
    \E i \in 1..Len(tags) :
        /\ tags[i].key # None
        /\ eq_ignore_ascii_case(tags[i].key[1], filter.key)

\* TagFilter::matches
matches(filter, tags) ==
    \E i \in 1..Len(tags) :
        /\ tags[i].key # None
        /\ eq_ignore_ascii_case(tags[i].key[1], filter.key)
        /\ tags[i].value # None
        /\ eq_ignore_ascii_case(tags[i].value[1], filter.value)

all_filters_match_Any(fs, tags) == \E i \in 1..Len(fs) : matches(fs[i], tags)

\* filters.iter().all(|filter| filter.matches(&tags))
all_filters_match(fs, tags) == \A i \in 1..Len(fs) : matches(fs[i], tags)

NoEntry == [present |-> FALSE, instances |-> <<>>, timestamp |-> 0]
CacheEntry(insts, timestamp) ==
    [present |-> TRUE, instances |-> insts, timestamp |-> timestamp]

\* SystemTime::elapsed: Err when the timestamp is later than the clock
ElapsedOk(entry, t) == t >= entry.timestamp
Elapsed(entry, t) == t - entry.timestamp

CacheHit_OffByOne(entry, t) ==
    /\ entry.present
    /\ ElapsedOk(entry, t)
    /\ Elapsed(entry, t) + 1 < cache_ttl

CacheHit_Never(entry, t) == FALSE

\* the match of get_instances_by_tags: Ok(elapsed) if elapsed < cache_ttl
CacheHit(entry, t) ==
    /\ entry.present
    /\ ElapsedOk(entry, t)
    /\ Elapsed(entry, t) < cache_ttl

CacheInsert_KeepExisting(c, fs, insts, t) ==
    IF c[fs].present THEN c ELSE [c EXCEPT ![fs] = CacheEntry(insts, t)]

\* self.cache.insert(filters, CacheEntry { instances, timestamp: now })
CacheInsert(c, fs, insts, t) == [c EXCEPT ![fs] = CacheEntry(insts, t)]

CacheAfterFailure_Stored(c, fs, insts, t) == CacheInsert(c, fs, insts, t)

\* self.fetch_filtered_instances(filters.clone()).await?: an Err returns
\* before self.cache.insert
CacheAfterFailure(c, fs, insts, t) == c

NotCalled == [now |-> 0, entry |-> NoEntry]

RdsOk(insts) == [kind |-> "Ok", instances |-> insts, err |-> ""]
RdsErr(e) == [kind |-> "Err", instances |-> <<>>, err |-> e]
RdsNone == [kind |-> "None", instances |-> <<>>, err |-> ""]

NoPage == [db_instances |-> <<>>, marker |-> None]

\* the first position from i on whose instance has an ARN
RECURSIVE NextWithArn(_, _)
NextWithArn(insts, i) ==
    IF i > Len(insts) THEN i
    ELSE IF insts[i].db_instance_arn # None THEN i
    ELSE NextWithArn(insts, i + 1)

\* call_with_retry entered: attempts = 0, last_error = None, delay = retry_delay
RdsCallBegin(pc) ==
    /\ rdsAttempts' = 0
    /\ last_error' = None
    /\ delay' = retry_delay
    /\ rdsPc' = pc

RdsCallIdle ==
    /\ rdsAttempts' = 0
    /\ last_error' = None
    /\ delay' = retry_delay

RdsLoopCondition_OneMore(n) == n <= max_retries

\* while attempts < self.config.max_retries
RdsLoopCondition(n) == n < max_retries

\* Err(last_error.unwrap_or_else(|| RdsError::RetryExhausted(...)))
RetryFailure(last) == IF last = None THEN "RetryExhausted" ELSE last[1]

\* history: how the tag lookup of an instance ended
TagLookup(arn, outcome) == [arn |-> arn, outcome |-> outcome]

\* Err(e) => { warn!(...); continue; }: on to the next instance of the page
AfterTagFailure_LeavePage(pg, i) == Len(pg.db_instances) + 1

AfterTagFailure(pg, i) == i + 1

NextToken_None(pg) == None

\* next_token = response.marker().map(String::from)
NextToken(pg) == pg.marker

\* fetch_filtered_instances from position i of page pg on, with f accepted so
\* far: the next tag lookup, the next page, or the end of the listing, where
\* get_instances_by_tags stores the result and returns it.
RdsContinue(pg, f, i) ==
    LET j == NextWithArn(pg.db_instances, i) IN
    /\ filtered_instances' = f
    /\ IF j <= Len(pg.db_instances)
       THEN /\ response' = pg
            /\ idx' = j
            /\ RdsCallBegin("tags")
            /\ UNCHANGED <<next_token, cache>>
            /\ rdsResult' = RdsNone
       ELSE IF NextToken(pg) # None
       THEN /\ response' = NoPage
            /\ idx' = 0
            /\ next_token' = NextToken(pg)
            /\ RdsCallBegin("list")
            /\ UNCHANGED cache
            /\ rdsResult' = RdsNone
       ELSE /\ response' = NoPage
            /\ idx' = 0
            /\ next_token' = None
            /\ RdsCallIdle
            /\ rdsPc' = "done"
            /\ cache' = CacheInsert(cache, filters, f, now)
            /\ rdsResult' = RdsOk(f)

\* The directory service: the instances it lists, in its own order, and
\* their tags. An instance without an ARN is listed too.
Instance(id, arn, engine, version, class, az) ==
    [db_instance_identifier |-> id, db_instance_arn |-> arn, engine |-> engine,
     engine_version |-> version, db_instance_class |-> class,
     availability_zone |-> az]

InstA ==
    Instance(Some("db-a"), Some("arn:a"), Some("mysql"), Some("8.0"),
             Some("db.t3.micro"), Some("ap-northeast-2a"))
InstB ==
    Instance(Some("db-b"), Some("arn:b"), Some("postgres"), Some("16.1"),
             Some("db.t3.micro"), None)
InstN == Instance(Some("db-n"), None, None, None, None, None)

Arns == {"arn:a", "arn:b"}
Fleets == {<<InstA, InstN, InstB>>, <<InstB, InstA>>}

Min(x, y) == IF x <= y THEN x ELSE y

\* describe_db_instances(marker, max_records): the slice of the fleet after
\* the marker, and a marker when more instances follow
ListPage(fl, token, max_records) ==
    LET start == IF token = None THEN 0 ELSE token[1]
        end == Min(start + max_records, Len(fl))
    IN  [db_instances |-> SubSeq(fl, start + 1, end),
         marker |-> IF end < Len(fl) THEN Some(end) ELSE None]

\* the strings of the tags and filters
Str_env == <<"e", "n", "v">>
Str_ENV == <<"E", "N", "V">>
Str_team == <<"t", "e", "a", "m">>
Str_prd == <<"p", "r", "d">>
Str_Prd == <<"P", "r", "d">>
Str_dev == <<"d", "e", "v">>
Str_db == <<"d", "b">>

Tag(k, v) == [key |-> k, value |-> v]

TagPool ==
    {Tag(Some(Str_env), Some(Str_prd)), Tag(Some(Str_ENV), Some(Str_Prd)),
     Tag(Some(Str_env), Some(Str_dev)), Tag(Some(Str_team), Some(Str_db)),
     Tag(Some(Str_prd), Some(Str_env)), Tag(None, Some(Str_prd)),
     Tag(Some(Str_env), None)}

TagLists == SeqsUpTo(TagPool, MaxTags)

\* the filter sets the callers pass; get_prd_instances passes the first
FilterSets ==
    {<<TagFilter(Str_env, Str_prd)>>,
     <<TagFilter(Str_ENV, Str_prd), TagFilter(Str_team, Str_db)>>}

get_instances_by_tags(fs) ==
    /\ rdsPc = "idle"
    /\ filters' = fs
    /\ rdsOps' = 0
    /\ atCall' = [now |-> now, entry |-> cache[fs]]
    /\ rdsLog' = <<>>
    /\ failedOn' = None
    /\ response' = NoPage
    /\ idx' = 0
    /\ IF CacheHit(cache[fs], now)
       THEN /\ rdsPc' = "done"
            /\ rdsResult' = RdsOk(cache[fs].instances)
            /\ RdsCallIdle
            /\ UNCHANGED <<filtered_instances, next_token>>
       ELSE /\ filtered_instances' = <<>>
            /\ next_token' = None
            /\ RdsCallBegin("list")
            /\ rdsResult' = RdsNone
    /\ UNCHANGED <<fleet, fleetTags, now, cache>>

\* a call_with_retry sends its first attempt: one more network operation
RdsOpsAfterSend == IF rdsAttempts = 0 THEN rdsOps + 1 ELSE rdsOps

\* one send() of describe_db_instances under call_with_retry; a failure after
\* the last attempt leaves fetch_filtered_instances through `?`
RdsSendList ==
    /\ rdsPc = "list"
    /\ rdsOps' = RdsOpsAfterSend
    /\ \/ RdsContinue(ListPage(fleet, next_token, page_size), filtered_instances, 1)
       \/ /\ last_error' = Some("DescribeInstancesError")
          /\ rdsAttempts' = rdsAttempts + 1
          /\ IF RdsLoopCondition(rdsAttempts + 1)
             THEN /\ rdsPc' = "listSleep"
                  /\ rdsResult' = RdsNone
                  /\ UNCHANGED filtered_instances
                  /\ UNCHANGED cache
             ELSE /\ rdsPc' = "done"
                  /\ rdsResult' = RdsErr(RetryFailure(Some("DescribeInstancesError")))
                  /\ filtered_instances' = <<>>
                  /\ cache' = CacheAfterFailure(cache, filters, filtered_instances, now)
          /\ UNCHANGED <<delay, next_token, response, idx>>
    /\ UNCHANGED <<fleet, fleetTags, now, filters, atCall, rdsLog, failedOn>>
    /\ UNCHANGED outsideRds

\* one send() of list_tags_for_resource under call_with_retry; a failure after
\* the last attempt makes the for loop `continue` with the next instance
RdsSendTags ==
    /\ rdsPc = "tags"
    /\ rdsOps' = RdsOpsAfterSend
    /\ LET instance == response.db_instances[idx]
           arn == instance.db_instance_arn[1]
       IN
       \/ LET tags == fleetTags[arn] IN
          /\ RdsContinue(response,
                         IF all_filters_match(filters, tags)
                         THEN Append(filtered_instances, instance)
                         ELSE filtered_instances,
                         idx + 1)
          /\ rdsLog' = Append(rdsLog, TagLookup(arn, "Ok"))
       \/ IF RdsLoopCondition(rdsAttempts + 1)
          THEN /\ last_error' = Some("TagLookupError")
               /\ rdsAttempts' = rdsAttempts + 1
               /\ rdsPc' = "tagsSleep"
               /\ UNCHANGED <<delay, filtered_instances, next_token, response,
                              idx, cache, rdsResult, rdsLog>>
          ELSE /\ RdsContinue(response, filtered_instances,
                              AfterTagFailure(response, idx))
               /\ rdsLog' = Append(rdsLog,
                        TagLookup(arn, RetryFailure(Some("TagLookupError"))))
    /\ UNCHANGED <<fleet, fleetTags, now, filters, atCall, failedOn>>
    /\ UNCHANGED outsideRds

\* sleep(delay).await; delay *= 2
RdsSleep ==
    /\ rdsPc \in {"listSleep", "tagsSleep"}
    /\ rdsPc' = IF rdsPc = "listSleep" THEN "list" ELSE "tags"
    /\ delay' = delay * 2
    /\ UNCHANGED <<fleet, fleetTags, now, cache, filters, filtered_instances,
                   next_token, response, idx, rdsAttempts, last_error, rdsOps,
                   atCall, rdsResult, rdsLog, failedOn>>
    /\ UNCHANGED outsideRds

\* the caller takes the result; the locals of the call are dropped
RdsTakeResult ==
    /\ rdsPc = "done"
    /\ rdsPc' = "idle"
    /\ rdsResult' = RdsNone
    /\ rdsOps' = 0
    /\ atCall' = NotCalled
    /\ rdsLog' = <<>>
    /\ failedOn' = IF /\ rdsResult.kind = "Err"
                      /\ atCall.entry.present
                      /\ atCall.now - atCall.entry.timestamp >= cache_ttl
                   THEN Some(filters)
                   ELSE None
    /\ filters' = <<>>
    /\ filtered_instances' = <<>>
    /\ next_token' = None
    /\ response' = NoPage
    /\ idx' = 0
    /\ RdsCallIdle
    /\ UNCHANGED <<fleet, fleetTags, now, cache>>

\* the wall clock moves on, or is set back
ClockTick ==
    /\ now < MaxTime
    /\ now' = now + 1
    /\ UNCHANGED <<fleet, fleetTags, cache, rdsPc, filters, filtered_instances,
                   next_token, response, idx, rdsAttempts, delay, last_error,
                   rdsOps, atCall, rdsResult, rdsLog, failedOn>>
    /\ UNCHANGED outsideRds

ClockSetBack ==
    /\ now > 0
    /\ now' = now - 1
    /\ UNCHANGED <<fleet, fleetTags, cache, rdsPc, filters, filtered_instances,
                   next_token, response, idx, rdsAttempts, delay, last_error,
                   rdsOps, atCall, rdsResult, rdsLog, failedOn>>
    /\ UNCHANGED outsideRds

\* instances are created and deleted while the exporter runs
FleetChange ==
    /\ \E fl \in Fleets : fl # fleet /\ fleet' = fl
    /\ UNCHANGED <<fleetTags, now, cache, rdsPc, filters, filtered_instances,
                   next_token, response, idx, rdsAttempts, delay, last_error,
                   rdsOps, atCall, rdsResult, rdsLog, failedOn>>
    /\ UNCHANGED outsideRds

\* a caller of the directory client alone
RdsCall ==
    /\ \E fs \in FilterSets : get_instances_by_tags(fs)
    /\ UNCHANGED outsideRds

\* RdsInstanceManager::new: an empty cache
RdsIdle ==
    /\ now = 0
    /\ cache = [fs \in FilterSets |-> NoEntry]
    /\ rdsPc = "idle"
    /\ filters = <<>>
    /\ filtered_instances = <<>>
    /\ next_token = None
    /\ response = NoPage
    /\ idx = 0
    /\ rdsAttempts = 0
    /\ delay = retry_delay
    /\ last_error = None
    /\ rdsOps = 0
    /\ atCall = NotCalled
    /\ rdsLog = <<>>
    /\ failedOn = None
    /\ rdsResult = RdsNone

OtherTagLists ==
    {<<>>, <<Tag(Some(Str_env), Some(Str_dev))>>,
     <<Tag(Some(Str_team), Some(Str_db)), Tag(Some(Str_env), Some(Str_Prd))>>}

SampleFleetTags ==
    [a \in Arns |->
        IF a = "arn:a" THEN <<Tag(Some(Str_env), Some(Str_prd))>>
        ELSE <<Tag(Some(Str_team), Some(Str_db)), Tag(Some(Str_env), Some(Str_Prd))>>]

RdsReturn == RdsTakeResult /\ UNCHANGED outsideRds

RdsNext ==
    \/ RdsCall \/ RdsSendList \/ RdsSendTags \/ RdsSleep \/ RdsReturn
    \/ ClockTick \/ ClockSetBack \/ FleetChange

\* the directory client with fleet and clock at rest
RdsQuietNext == RdsCall \/ RdsSendList \/ RdsSendTags \/ RdsSleep \/ RdsReturn

(***************************************************************************)
(* CloudWatchCollector (src/aws/cloudwatch.rs)                             *)
(***************************************************************************)
NoResponse == <<>>

CwOk(resp) == [kind |-> "Ok", response |-> resp, msg |-> "", count |-> 0]
CwInvalidParameter ==
    [kind |-> "InvalidParameter", response |-> NoResponse,
     msg |-> "namespace and metric_name must not be empty", count |-> 0]
CwTimeout(m) == [kind |-> "Timeout", response |-> NoResponse, msg |-> m, count |-> 0]
\* format!("...({})...: {}", self.config.retry_attempts, last_error_message)
CwRetryExhausted(n, m) ==
    [kind |-> "RetryExhausted", response |-> NoResponse, msg |-> m, count |-> n]
CwNone == [kind |-> "None", response |-> NoResponse, msg |-> "", count |-> 0]

build_metric_stat_ok_NamespaceOnly(t) == ~ (t.namespace = "")

\* build_metric_stat: the validation, then the MetricStat of the tuple
build_metric_stat_ok(t) == ~ (t.namespace = "" \/ t.metric_name = "")

\* format!("m{}", idx), idx counted from 0 by enumerate()
QueryId(k) == <<"m", k>>

\* the for loop of collect_all_metrics: one query per tuple, in order
BuildQueries(metrics) ==
    [i \in 1..Len(metrics) |->
        [id |-> QueryId(i - 1),
         namespace |-> metrics[i].namespace,
         metric_name |-> metrics[i].metric_name,
         dimension_value |-> metrics[i].dimension_value]]

\* `?` on build_metric_stat: the first tuple that fails validation ends the call
AllTuplesValid(metrics) == \A i \in 1..Len(metrics) : build_metric_stat_ok(metrics[i])

CwLoopCondition_GivesUpEarly(n) == n + 1 < retry_attempts

CwLoopCondition_OneMore(n) == n <= retry_attempts

\* while attempts < self.config.retry_attempts
CwLoopCondition(n) == n < retry_attempts

\* The loop test of call_with_retry reached with n attempts made and last
\* error m: another send(), or the RetryExhausted error after the loop.
CwLoop(n, m, sleeping) ==
    IF CwLoopCondition(n)
    THEN /\ cwPc' = IF sleeping THEN "sleep" ELSE "send"
         /\ cwResult' = CwNone
    ELSE /\ cwPc' = "done"
         /\ cwResult' = CwRetryExhausted(retry_attempts, m)

CwBegin(metrics) ==
    /\ cwInput' = metrics
    /\ cwLog' = <<>>
    /\ IF AllTuplesValid(metrics)
       THEN /\ cwQueries' = BuildQueries(metrics)
            /\ attempts' = 0
            /\ last_error_message' = ""
            /\ CwLoop(0, "", FALSE)
       ELSE /\ cwPc' = "done"
            /\ cwResult' = CwInvalidParameter
            /\ UNCHANGED <<cwQueries, attempts, last_error_message>>
    /\ UNCHANGED retry_attempts

collect_all_metrics(metrics) == cwPc = "idle" /\ CwBegin(metrics)

\* What the remote service may answer to get_metric_data(queries): results
\* for some of the queries, each under the id of its query, in any order.
SampleValues == {<<1>>, <<2, 1>>}

\* the queries the service has data for, by position
Answered == {1, 2}

ResultsFor(queries) ==
    {[id |-> queries[i].id, values |-> v] :
        i \in Answered \cap (1..Len(queries)), v \in SampleValues}

Responses(queries) ==
    {r \in SeqsUpTo(ResultsFor(queries), MaxResults) :
        NoRepeat([i \in 1..Len(r) |-> r[i].id])}

ServiceErrors == {"Throttling", "InternalServiceFault"}

Latencies == {CallTimeout - 1, CallTimeout + 1}

\* tokio::time::timeout: Err(_) when the deadline passes before send() ends
TimedOut(latency) == latency > CallTimeout

\* Err(_) of the timeout: the call ends with Timeout, attempts is not counted
CwOnTimeout_Retried ==
    /\ last_error_message' = "API call timeout"
    /\ attempts' = attempts + 1
    /\ CwLoop(attempts + 1, "API call timeout", TRUE)

CwOnTimeout ==
    /\ last_error_message' = "API call timeout"
    /\ cwPc' = "done"
    /\ cwResult' = CwTimeout("API call timeout")
    /\ UNCHANGED attempts

\* one pass of the loop body of call_with_retry
CwSend ==
    /\ cwPc = "send"
    /\ \E latency \in Latencies :
       \/ /\ TimedOut(latency)
          /\ cwLog' = Append(cwLog, [kind |-> "timeout", response |-> NoResponse, err |-> ""])
          /\ CwOnTimeout
       \/ /\ ~ TimedOut(latency)
          /\ \E resp \in Responses(cwQueries) :
                /\ cwLog' = Append(cwLog, [kind |-> "ok", response |-> resp, err |-> ""])
                /\ cwPc' = "done"
                /\ cwResult' = CwOk(resp)
                /\ UNCHANGED <<attempts, last_error_message>>
       \/ /\ ~ TimedOut(latency)
          /\ \E err \in ServiceErrors :
                /\ cwLog' = Append(cwLog, [kind |-> "err", response |-> NoResponse, err |-> err])
                /\ last_error_message' = err
                /\ attempts' = attempts + 1
                /\ CwLoop(attempts + 1, err, TRUE)
    /\ UNCHANGED <<retry_attempts, cwInput, cwQueries>>
    /\ UNCHANGED outsideCw

\* sleep(self.config.retry_delay) between two attempts
CwSleep ==
    /\ cwPc = "sleep"
    /\ cwPc' = "send"
    /\ UNCHANGED <<retry_attempts, cwInput, cwQueries, attempts,
                   last_error_message, cwLog, cwResult>>
    /\ UNCHANGED outsideCw

\* the caller takes the result
CwTakeResult ==
    /\ cwPc = "done"
    /\ cwPc' = "idle"
    /\ cwResult' = CwNone
    /\ cwLog' = <<>>
    /\ cwInput' = <<>>
    /\ UNCHANGED <<retry_attempts, cwQueries, attempts, last_error_message>>

\* the tuples a caller may pass
Namespaces == {"AWS/RDS", ""}
MetricNames == {"CPUUtilization", ""}
Tuples ==
    [namespace : Namespaces, metric_name : MetricNames,
     dimension_name : {"DBInstanceIdentifier"}, dimension_value : {"db-a"}]

\* a caller of the time-series client alone
CwCall ==
    /\ \E metrics \in SeqsUpTo(Tuples, MaxTuples) : collect_all_metrics(metrics)
    /\ UNCHANGED outsideCw

CwReturn == CwTakeResult /\ UNCHANGED outsideCw

CwIdle ==
    /\ cwPc = "idle"
    /\ cwInput = <<>>
    /\ cwQueries = <<>>
    /\ attempts = 0
    /\ last_error_message = ""
    /\ cwLog = <<>>
    /\ cwResult = CwNone

\* ---------------------------------------------------------------------------
\* metrics/collector.rs: RdsMetricCollector
\* ---------------------------------------------------------------------------

unwrap_or_default(opt) == IF opt = None THEN "" ELSE opt[1]

get_common_metrics ==
    <<"CPUUtilization", "FreeableMemory", "FreeStorageSpace",
      "DatabaseConnections", "ReadIOPS", "WriteIOPS", "ReadLatency",
      "WriteLatency", "DiskQueueDepth", "ReadThroughput", "WriteThroughput",
      "NetworkReceiveThroughput", "NetworkTransmitThroughput", "LockWaitTime",
      "LockContention", "QueryExecutionTime", "QueryCount", "SlowQueries",
      "BackupStatus", "SnapshotAge">>

get_mysql_metrics ==
    get_common_metrics \o
    <<"Queries", "ThreadsRunning", "InnodbBufferPoolHits",
      "InnodbBufferPoolReadRequests", "InnodbBufferPoolReads", "DeadlocksCount">>

get_postgresql_metrics ==
    get_common_metrics \o
    <<"ActiveTransactions", "BufferCacheHitRatio", "IndexHitRatio", "Deadlocks",
      "TemporaryTables", "ReplicationLag", "CheckpointDuration",
      "WALWriteLatency">>

metrics_to_collect_DefaultMysql(instance) ==
    LET engine == unwrap_or_default(instance.engine)
    IN  IF engine \in {"aurora-postgresql", "postgres"}
        THEN get_postgresql_metrics
        ELSE get_mysql_metrics

\* the match on the engine name
metrics_to_collect(instance) ==
    LET engine == unwrap_or_default(instance.engine)
    IN  IF engine \in {"aurora-mysql", "mysql"} THEN get_mysql_metrics
        ELSE IF engine \in {"aurora-postgresql", "postgres"}
             THEN get_postgresql_metrics
        ELSE get_common_metrics

\* the label map of an instance: a key for each field that is present, then
\* instance_id
TagKeys(instance) ==
    {k \in {"db_instance_identifier", "engine", "engine_version", "class",
            "availability_zone"} :
        CASE k = "db_instance_identifier" -> instance.db_instance_identifier # None
          [] k = "engine" -> instance.engine # None
          [] k = "engine_version" -> instance.engine_version # None
          [] k = "class" -> instance.db_instance_class # None
          [] OTHER -> instance.availability_zone # None}

get_instance_tags(instance) ==
    [k \in TagKeys(instance) |->
        CASE k = "db_instance_identifier" -> instance.db_instance_identifier[1]
          [] k = "engine" -> instance.engine[1]
          [] k = "engine_version" -> instance.engine_version[1]
          [] k = "class" -> instance.db_instance_class[1]
          [] OTHER -> instance.availability_zone[1]]

InstanceTags(instance) ==
    LET tags == get_instance_tags(instance)
    IN  [k \in DOMAIN tags \cup {"instance_id"} |->
            IF k = "instance_id"
            THEN unwrap_or_default(instance.db_instance_identifier)
            ELSE tags[k]]

metric_tuples(instance) ==
    LET names == metrics_to_collect(instance)
    IN  [i \in 1..Len(names) |->
            [namespace |-> "AWS/RDS", metric_name |-> names[i],
             dimension_name |-> "DBInstanceIdentifier",
             dimension_value |-> unwrap_or_default(instance.db_instance_identifier)]]

\* history: the metric name of the query that was sent under this id
QueryName(queries, id) ==
    LET k == CHOOSE j \in 1..Len(queries) : queries[j].id = id
    IN  queries[k].metric_name

MetricPoint(value, metric_name, additional_tags, asked) ==
    [value |-> value, metric_name |-> metric_name,
     additional_tags |-> additional_tags, asked |-> asked]

\* let metric_name = &metrics_to_collect[idx]: the name at the position at
\* which the result arrived
NameOfResult(names, queries, resp, pos) == names[pos]

\* the Ok arm: one point per value of each result, in the order of arrival
RECURSIVE PointsFrom(_, _, _, _)
PointsFrom(instance, queries, resp, pos) ==
    IF pos > Len(resp) THEN <<>>
    ELSE LET data == resp[pos]
             metric_name ==
                NameOfResult(metrics_to_collect(instance), queries, resp, pos)
         IN  [v \in 1..Len(data.values) |->
                MetricPoint(data.values[v], metric_name, InstanceTags(instance),
                            QueryName(queries, data.id))]
             \o PointsFrom(instance, queries, resp, pos + 1)

PointsOf(instance, queries, result) ==
    IF result.kind = "Ok" THEN PointsFrom(instance, queries, result.response, 1)
    ELSE <<>>

\* where the loop over instances goes after an instance's query has ended
NextInstance_BreakOnErr(result, pos, n) ==
    IF result.kind = "Ok" THEN pos + 1 ELSE n + 1

NextInstance(result, pos, n) == pos + 1

target_tag_key == Str_env
target_tag_value == Str_prd

get_prd_instances ==
    get_instances_by_tags(<<TagFilter(target_tag_key, target_tag_value)>>)

\* main.rs registers one publisher; the collector takes any number
NumPublishers == 2

\* the head of the loop over instances: the next query, or the publishers
ColLoop(insts, pos) ==
    /\ instPos' = pos
    /\ IF pos <= Len(insts)
       THEN /\ colPc' = "query"
            /\ CwBegin(metric_tuples(insts[pos]))
       ELSE /\ colPc' = "publish"
            /\ cwPc' = "idle"
            /\ cwResult' = CwNone
            /\ cwLog' = <<>>
            /\ cwInput' = <<>>
            /\ UNCHANGED <<retry_attempts, cwQueries, attempts, last_error_message>>

\* start_collection enters collect_and_publish
ColStart ==
    /\ colPc = "idle"
    /\ colPc' = "directory"
    /\ get_prd_instances
    /\ UNCHANGED <<instances, instPos, all_metrics, pubPos, colListing, colResult,
                   colLog, delivered>>
    /\ UNCHANGED cwVars
    /\ UNCHANGED pubVars

\* the `?` on get_prd_instances().await: an Err leaves collect_and_publish
ListingOk_Ignored(result) == TRUE

ListingOk(result) == result.kind = "Ok"

\* get_prd_instances().await? has returned
ColGotInstances ==
    /\ colPc = "directory"
    /\ RdsTakeResult
    /\ colListing' = rdsResult.kind
    /\ IF ListingOk(rdsResult)
       THEN /\ instances' = rdsResult.instances
            /\ ColLoop(rdsResult.instances, 1)
            /\ UNCHANGED colResult
       ELSE /\ colPc' = "sleep"
            /\ colResult' = "Err"
            /\ UNCHANGED <<instances, instPos>>
            /\ UNCHANGED cwVars
    /\ UNCHANGED <<all_metrics, pubPos, colLog, delivered>>
    /\ UNCHANGED pubVars

\* collect_all_metrics(...).await has returned for instances[instPos]
ColGotMetrics ==
    /\ colPc = "query"
    /\ cwPc = "done"
    /\ all_metrics' =
        all_metrics \o PointsOf(instances[instPos], cwQueries, cwResult)
    /\ colLog' = Append(colLog, [instance |-> instances[instPos],
                                 queries |-> cwQueries, result |-> cwResult])
    /\ ColLoop(instances, NextInstance(cwResult, instPos, Len(instances)))
    /\ UNCHANGED <<instances, pubPos, colListing, colResult, delivered>>
    /\ UNCHANGED rdsVars
    /\ UNCHANGED pubVars

\* if let Err(e) = publisher.publish(...).await { error!(...) }: on to the
\* next publisher whatever the outcome
NextPublisher_StopOnErr(outcome, pos) ==
    IF outcome = "Ok" THEN pos + 1 ELSE NumPublishers

NextPublisher(outcome, pos) == pos + 1

\* publisher.publish(all_metrics.clone()).await has returned
ColPublish ==
    /\ colPc = "publish"
    /\ pubPos < NumPublishers
    /\ \E outcome \in {"Ok", "Err"} :
          /\ delivered' = Append(delivered, [publisher |-> pubPos + 1,
                                             batch |-> all_metrics,
                                             outcome |-> outcome])
          /\ pubPos' = NextPublisher(outcome, pubPos)
    /\ UNCHANGED <<colPc, instances, instPos, all_metrics, colListing, colResult,
                   colLog>>
    /\ UNCHANGED <<cwVars, rdsVars>>
    /\ UNCHANGED pubVars

\* collect_and_publish returns Ok(()) and the sleep begins
ColReturn ==
    /\ colPc = "publish"
    /\ pubPos = NumPublishers
    /\ colPc' = "sleep"
    /\ colResult' = "Ok"
    /\ UNCHANGED <<instances, instPos, all_metrics, pubPos, colListing, colLog,
                   delivered>>
    /\ UNCHANGED <<cwVars, rdsVars>>
    /\ UNCHANGED pubVars

\* the sleep of collection_interval ends
ColSleep ==
    /\ colPc = "sleep"
    /\ colPc' = "idle"
    /\ now' = Min(now + 1, MaxTime)
    /\ UNCHANGED <<fleet, fleetTags, cache, rdsPc, filters, filtered_instances,
                   next_token, response, idx, rdsAttempts, delay, last_error,
                   rdsOps, atCall, rdsResult, rdsLog, failedOn>>
    /\ instances' = <<>>
    /\ instPos' = 0
    /\ all_metrics' = <<>>
    /\ pubPos' = 0
    /\ colListing' = "None"
    /\ colResult' = "None"
    /\ colLog' = <<>>
    /\ delivered' = <<>>
    /\ UNCHANGED cwVars
    /\ UNCHANGED pubVars

\* RdsMetricCollector::new, before start_collection
ColIdle ==
    /\ colPc = "idle"
    /\ instances = <<>>
    /\ instPos = 0
    /\ all_metrics = <<>>
    /\ pubPos = 0
    /\ colListing = "None"
    /\ colResult = "None"
    /\ colLog = <<>>
    /\ delivered = <<>>

\* a component checked alone: the collector never starts
ColOff ==
    /\ colPc = "off"
    /\ instances = <<>>
    /\ instPos = 0
    /\ all_metrics = <<>>
    /\ pubPos = 0
    /\ colListing = "None"
    /\ colResult = "None"
    /\ colLog = <<>>
    /\ delivered = <<>>

\* ---------------------------------------------------------------------------
\* metrics/prometheus_publisher.rs: PrometheusPublisher
\* ---------------------------------------------------------------------------

to_lowercase(str) == [i \in 1..Len(str) |-> to_ascii_lowercase(str[i])]

\* format!("rds_{}", metric.metric_name.to_lowercase())
create_metric_name(metric) == <<"r", "d", "s", "_">> \o to_lowercase(metric.metric_name)

\* a HashMap<String, String> as its entries in the order keys() yields them
TagEntry(k, v) == [key |-> k, value |-> v]

\* metric.additional_tags.keys().collect()
label_names_of(tags) == [i \in 1..Len(tags) |-> tags[i].key]

\* metric.additional_tags.get(name).unwrap_or("")
TagsGet(tags, name) ==
    IF \E i \in 1..Len(tags) : tags[i].key = name
    THEN tags[CHOOSE i \in 1..Len(tags) : tags[i].key = name].value
    ELSE ""

label_values_of(tags, names) == [i \in 1..Len(names) |-> TagsGet(tags, names[i])]

\* a GaugeVec: its label names, and the value of each cell by label values
NoGauge == [present |-> FALSE, label_names |-> <<>>, cells |-> <<>>]
GaugeVec(names) == [present |-> TRUE, label_names |-> names, cells |-> <<>>]

\* GaugeVec::new refuses a label name that is not [a-zA-Z_][a-zA-Z0-9_]*
IsValidLabelName(k) == k \notin {"", "bad-key"}

GaugeVecNewOk(names) == \A i \in 1..Len(names) : IsValidLabelName(names[i])

\* metrics.get(name): the existing gauge is returned whatever its label names
MetricsGet(metrics, name, names) == metrics[name].present

\* gauge.with_label_values(&label_values) unwraps: it panics when the number
\* of values is not the number of label names of the gauge
WithLabelValuesOk(gauge, values) == Len(values) = Len(gauge.label_names)

SetCell_Replace(gauge, values, v) ==
    [gauge EXCEPT !.cells = [lv \in {values} |-> v]]

\* metric_gauge.set(value) on the cell of these label values
SetCell(gauge, values, v) ==
    [gauge EXCEPT !.cells =
        [lv \in DOMAIN gauge.cells \cup {values} |->
            IF lv = values THEN v ELSE gauge.cells[lv]]]

PubEntry(metric, conflict, outcome) ==
    [metric |-> metric, conflict |-> conflict, outcome |-> outcome]

\* the point names an existing series under another label-key set
Conflicts(metrics, metric) ==
    LET name == create_metric_name(metric)
    IN  /\ metrics[name].present
        /\ Range(metrics[name].label_names) # Range(label_names_of(metric.additional_tags))

\* one turn of the loop of publish over the points of the batch
PubPoint ==
    /\ pubPc = "loop"
    /\ pubBatch # <<>>
    /\ pubBatch' = Tail(pubBatch)
    /\ UNCHANGED pubBefore
    /\ LET metric == Head(pubBatch)
           metric_name == create_metric_name(metric)
           label_names == label_names_of(metric.additional_tags)
           label_values == label_values_of(metric.additional_tags, label_names)
           conflict == Conflicts(METRICS, metric)
       IN  IF MetricsGet(METRICS, metric_name, label_names)
           THEN /\ UNCHANGED REGISTRY
                /\ IF WithLabelValuesOk(METRICS[metric_name], label_values)
                   THEN /\ METRICS' = [METRICS EXCEPT ![metric_name] =
                                SetCell(@, label_values, metric.value)]
                        /\ pubPc' = "loop"
                        /\ pubLog' = Append(pubLog, PubEntry(metric, conflict, "set"))
                   ELSE /\ pubPc' = "panicked"
                        /\ pubLog' = Append(pubLog, PubEntry(metric, conflict, "panic"))
                        /\ UNCHANGED METRICS
           ELSE IF GaugeVecNewOk(label_names) /\ metric_name \notin REGISTRY
           THEN /\ REGISTRY' = REGISTRY \cup {metric_name}
                /\ METRICS' = [METRICS EXCEPT ![metric_name] =
                        SetCell(GaugeVec(label_names), label_values, metric.value)]
                /\ pubPc' = "loop"
                /\ pubLog' = Append(pubLog, PubEntry(metric, conflict, "set"))
           ELSE /\ pubPc' = "loop"
                /\ pubLog' = Append(pubLog, PubEntry(metric, conflict, "dropped"))
                /\ UNCHANGED <<METRICS, REGISTRY>>
    /\ UNCHANGED <<cwVars, rdsVars, colVars, serveVars, thVars>>

\* the batches a caller may publish
Str_CPU == <<"C", "P", "U">>
Str_cpu == <<"c", "p", "u">>
Str_IO == <<"I", "O">>
PubPoint_(v, n, t) == [value |-> v, metric_name |-> n, additional_tags |-> t]
PubPoints ==
    {PubPoint_(1, Str_CPU, <<TagEntry("instance_id", "a")>>),
     PubPoint_(2, Str_CPU, <<TagEntry("instance_id", "a")>>),
     PubPoint_(1, Str_CPU, <<TagEntry("instance_id", "b")>>),
     PubPoint_(2, Str_cpu, <<TagEntry("instance_id", "b")>>),
     PubPoint_(2, Str_CPU, <<TagEntry("engine", "a")>>),
     PubPoint_(1, Str_CPU, <<TagEntry("instance_id", "a"), TagEntry("engine", "b")>>),
     PubPoint_(2, Str_CPU, <<TagEntry("engine", "b"), TagEntry("instance_id", "a")>>),
     PubPoint_(1, Str_CPU, <<TagEntry("bad-key", "a")>>),
     PubPoint_(1, Str_IO, <<TagEntry("instance_id", "a")>>)}
SeriesNames == {create_metric_name(m) : m \in PubPoints}

\* publish(metrics) is called
PubCall ==
    /\ pubPc = "idle"
    /\ pubPc' = "loop"
    /\ \E batch \in SeqsUpTo(PubPoints, MaxBatch) : pubBatch' = batch
    /\ pubLog' = <<>>
    /\ pubBefore' = METRICS
    /\ UNCHANGED <<METRICS, REGISTRY>>
    /\ UNCHANGED <<cwVars, rdsVars, colVars, serveVars, thVars>>

\* publish returns Ok(())
PubReturn ==
    /\ pubPc = "loop"
    /\ pubBatch = <<>>
    /\ pubPc' = "idle"
    /\ pubLog' = <<>>
    /\ pubBefore' = METRICS
    /\ UNCHANGED <<METRICS, REGISTRY, pubBatch>>
    /\ UNCHANGED <<cwVars, rdsVars, colVars, serveVars, thVars>>

\* the handles of the publisher: the collector's, and those of other callers
NumHandles == 2
Handles == 1..NumHandles

\* no handle publishes on a thread of its own
ThOff ==
    /\ lockHolder = 0
    /\ thPc = [h \in Handles |-> "off"]
    /\ thPoint = [h \in Handles |-> <<>>]
    /\ thResult = [h \in Handles |-> "None"]

\* no request is served
ServeOff ==
    /\ servePc = "off"
    /\ gathered = {}
    /\ everSet = {}

\* the lazy statics before their first use
PubEmpty ==
    /\ METRICS = [n \in SeriesNames |-> NoGauge]
    /\ REGISTRY = {}
    /\ pubBatch = <<>>
    /\ pubLog = <<>>
    /\ pubBefore = METRICS
    /\ ServeOff
    /\ ThOff

PubIdle == pubPc = "idle" /\ PubEmpty

\* a component checked alone: nothing is published
PubOff == pubPc = "off" /\ PubEmpty

CwInit ==
    /\ retry_attempts \in 0..MaxRetryAttempts
    /\ CwIdle
    /\ fleet = <<InstA, InstN, InstB>>
    /\ fleetTags = SampleFleetTags
    /\ RdsIdle
    /\ ColOff
    /\ PubOff

CwNext == CwCall \/ CwSend \/ CwSleep \/ CwReturn

SpecCw == CwInit /\ [][CwNext]_vars

RdsInit ==
    /\ fleet \in Fleets
    /\ fleetTags = SampleFleetTags
    /\ RdsIdle
    /\ retry_attempts = 3
    /\ CwIdle
    /\ ColOff
    /\ PubOff

SpecRds == RdsInit /\ [][RdsNext]_vars

\* any tag assignment, with fleet and clock at rest
RdsTagsInit ==
    /\ fleet \in Fleets
    /\ fleetTags \in {[a \in Arns |-> IF a = "arn:a" THEN ta ELSE tb] :
                        ta \in TagLists, tb \in OtherTagLists}
    /\ RdsIdle
    /\ retry_attempts = 3
    /\ CwIdle
    /\ ColOff
    /\ PubOff

SpecRdsTags == RdsTagsInit /\ [][RdsQuietNext]_vars

\* the collector with both clients, the directory changing under it
Init ==
    /\ fleet \in Fleets
    /\ fleetTags = SampleFleetTags
    /\ RdsIdle
    /\ retry_attempts = 3
    /\ CwIdle
    /\ ColIdle
    /\ PubOff

\* the directory changes; the collector reads it only while it lists
ColFleetChange == colPc \in {"idle", "directory"} /\ FleetChange

Next ==
    \/ ColStart \/ RdsSendList \/ RdsSendTags \/ RdsSleep \/ ColGotInstances
    \/ CwSend \/ CwSleep \/ ColGotMetrics \/ ColPublish \/ ColReturn
    \/ ColSleep \/ ColFleetChange

Spec == Init /\ [][Next]_vars

\* the steps of the collector task and of the calls it awaits
ColTask ==
    \/ ColStart \/ RdsSendList \/ RdsSendTags \/ RdsSleep \/ ColGotInstances
    \/ CwSend \/ CwSleep \/ ColGotMetrics \/ ColPublish \/ ColReturn
    \/ ColSleep

\* the collector over a directory at rest: the runtime keeps polling the
\* spawned task, and every awaited call and sleep ends
FairSpec == Init /\ [][ColTask]_vars /\ WF_vars(ColTask)

\* a metric name as the sequence of its characters
Chars(name) ==
    CASE name = "CPUUtilization" ->
            <<"C", "P", "U", "U", "t", "i", "l", "i", "z", "a", "t", "i", "o", "n">>
      [] name = "FreeableMemory" ->
            <<"F", "r", "e", "e", "a", "b", "l", "e", "M", "e", "m", "o", "r", "y">>
      [] name = "FreeStorageSpace" ->
            <<"F", "r", "e", "e", "S", "t", "o", "r", "a", "g", "e", "S", "p", "a", "c", "e">>
      [] name = "DatabaseConnections" ->
            <<"D", "a", "t", "a", "b", "a", "s", "e", "C", "o", "n", "n", "e", "c", "t", "i", "o", "n", "s">>
      [] name = "ReadIOPS" ->
            <<"R", "e", "a", "d", "I", "O", "P", "S">>
      [] name = "WriteIOPS" ->
            <<"W", "r", "i", "t", "e", "I", "O", "P", "S">>
      [] name = "ReadLatency" ->
            <<"R", "e", "a", "d", "L", "a", "t", "e", "n", "c", "y">>
      [] name = "WriteLatency" ->
            <<"W", "r", "i", "t", "e", "L", "a", "t", "e", "n", "c", "y">>
      [] name = "DiskQueueDepth" ->
            <<"D", "i", "s", "k", "Q", "u", "e", "u", "e", "D", "e", "p", "t", "h">>
      [] name = "ReadThroughput" ->
            <<"R", "e", "a", "d", "T", "h", "r", "o", "u", "g", "h", "p", "u", "t">>
      [] name = "WriteThroughput" ->
            <<"W", "r", "i", "t", "e", "T", "h", "r", "o", "u", "g", "h", "p", "u", "t">>
      [] name = "NetworkReceiveThroughput" ->
            <<"N", "e", "t", "w", "o", "r", "k", "R", "e", "c", "e", "i", "v", "e", "T", "h", "r", "o", "u", "g", "h", "p", "u", "t">>
      [] name = "NetworkTransmitThroughput" ->
            <<"N", "e", "t", "w", "o", "r", "k", "T", "r", "a", "n", "s", "m", "i", "t", "T", "h", "r", "o", "u", "g", "h", "p", "u", "t">>
      [] name = "LockWaitTime" ->
            <<"L", "o", "c", "k", "W", "a", "i", "t", "T", "i", "m", "e">>
      [] name = "LockContention" ->
            <<"L", "o", "c", "k", "C", "o", "n", "t", "e", "n", "t", "i", "o", "n">>
      [] name = "QueryExecutionTime" ->
            <<"Q", "u", "e", "r", "y", "E", "x", "e", "c", "u", "t", "i", "o", "n", "T", "i", "m", "e">>
      [] name = "QueryCount" ->
            <<"Q", "u", "e", "r", "y", "C", "o", "u", "n", "t">>
      [] name = "SlowQueries" ->
            <<"S", "l", "o", "w", "Q", "u", "e", "r", "i", "e", "s">>
      [] name = "BackupStatus" ->
            <<"B", "a", "c", "k", "u", "p", "S", "t", "a", "t", "u", "s">>
      [] name = "SnapshotAge" ->
            <<"S", "n", "a", "p", "s", "h", "o", "t", "A", "g", "e">>
      [] name = "Queries" ->
            <<"Q", "u", "e", "r", "i", "e", "s">>
      [] name = "ThreadsRunning" ->
            <<"T", "h", "r", "e", "a", "d", "s", "R", "u", "n", "n", "i", "n", "g">>
      [] name = "InnodbBufferPoolHits" ->
            <<"I", "n", "n", "o", "d", "b", "B", "u", "f", "f", "e", "r", "P", "o", "o", "l", "H", "i", "t", "s">>
      [] name = "InnodbBufferPoolReadRequests" ->
            <<"I", "n", "n", "o", "d", "b", "B", "u", "f", "f", "e", "r", "P", "o", "o", "l", "R", "e", "a", "d", "R", "e", "q", "u", "e", "s", "t", "s">>
      [] name = "InnodbBufferPoolReads" ->
            <<"I", "n", "n", "o", "d", "b", "B", "u", "f", "f", "e", "r", "P", "o", "o", "l", "R", "e", "a", "d", "s">>
      [] name = "DeadlocksCount" ->
            <<"D", "e", "a", "d", "l", "o", "c", "k", "s", "C", "o", "u", "n", "t">>
      [] name = "ActiveTransactions" ->
            <<"A", "c", "t", "i", "v", "e", "T", "r", "a", "n", "s", "a", "c", "t", "i", "o", "n", "s">>
      [] name = "BufferCacheHitRatio" ->
            <<"B", "u", "f", "f", "e", "r", "C", "a", "c", "h", "e", "H", "i", "t", "R", "a", "t", "i", "o">>
      [] name = "IndexHitRatio" ->
            <<"I", "n", "d", "e", "x", "H", "i", "t", "R", "a", "t", "i", "o">>
      [] name = "Deadlocks" ->
            <<"D", "e", "a", "d", "l", "o", "c", "k", "s">>
      [] name = "TemporaryTables" ->
            <<"T", "e", "m", "p", "o", "r", "a", "r", "y", "T", "a", "b", "l", "e", "s">>
      [] name = "ReplicationLag" ->
            <<"R", "e", "p", "l", "i", "c", "a", "t", "i", "o", "n", "L", "a", "g">>
      [] name = "CheckpointDuration" ->
            <<"C", "h", "e", "c", "k", "p", "o", "i", "n", "t", "D", "u", "r", "a", "t", "i", "o", "n">>
      [] name = "WALWriteLatency" ->
            <<"W", "A", "L", "W", "r", "i", "t", "e", "L", "a", "t", "e", "n", "c", "y">>

\* the order in which keys() yields the keys of an instance's label map: a
\* HashMap fixes none
KeyOrder ==
    <<"db_instance_identifier", "engine", "engine_version", "class",
      "availability_zone", "instance_id">>

Reverse(seq) == [i \in 1..Len(seq) |-> seq[Len(seq) + 1 - i]]

\* the label map of a point as its entries in iteration order
TagEntries(tags, reversed) ==
    LET keys == IF reversed
                THEN Reverse(SelectSeq(KeyOrder, LAMBDA k : k \in DOMAIN tags))
                ELSE SelectSeq(KeyOrder, LAMBDA k : k \in DOMAIN tags)
    IN  [i \in 1..Len(keys) |-> TagEntry(keys[i], tags[keys[i]])]

\* the batch as the publisher receives it
Published(batch, reversed) ==
    [i \in 1..Len(batch) |->
        [value |-> batch[i].value,
         metric_name |-> Chars(batch[i].metric_name),
         additional_tags |-> TagEntries(batch[i].additional_tags, reversed)]]

AppSeriesNames ==
    {create_metric_name([metric_name |-> Chars(n)]) :
        n \in Range(get_mysql_metrics) \cup Range(get_postgresql_metrics)}

\* main: the one publisher of the collector is the PrometheusPublisher
AppPublish ==
    /\ colPc = "publish"
    /\ pubPos = 0
    /\ pubPc = "idle"
    /\ pubPc' = "loop"
    /\ \E reversed \in BOOLEAN : pubBatch' = Published(all_metrics, reversed)
    /\ pubLog' = <<>>
    /\ pubBefore' = METRICS
    /\ UNCHANGED <<METRICS, REGISTRY>>
    /\ UNCHANGED <<cwVars, rdsVars, colVars, serveVars, thVars>>

\* publish has returned Ok(()), collect_and_publish returns Ok(()) and the
\* sleep begins
AppPublished ==
    /\ colPc = "publish"
    /\ pubPc = "loop"
    /\ pubBatch = <<>>
    /\ pubPc' = "idle"
    /\ pubLog' = <<>>
    /\ pubBefore' = METRICS
    /\ pubPos' = pubPos + 1
    /\ delivered' = Append(delivered, [publisher |-> pubPos + 1,
                                       batch |-> all_metrics, outcome |-> "Ok"])
    /\ colPc' = "sleep"
    /\ colResult' = "Ok"
    /\ UNCHANGED <<instances, instPos, all_metrics, colListing, colLog>>
    /\ UNCHANGED <<METRICS, REGISTRY, pubBatch>>
    /\ UNCHANGED <<cwVars, rdsVars, serveVars, thVars>>

AppInit ==
    /\ fleet = <<InstA, InstN, InstB>>
    /\ fleetTags = SampleFleetTags
    /\ RdsIdle
    /\ retry_attempts = 3
    /\ CwIdle
    /\ ColIdle
    /\ pubPc = "idle"
    /\ METRICS = [n \in AppSeriesNames |-> NoGauge]
    /\ REGISTRY = {}
    /\ pubBatch = <<>>
    /\ pubLog = <<>>
    /\ pubBefore = METRICS
    /\ ServeOff
    /\ ThOff

\* the steps of the collector task in the exporter as main wires it
AppTask ==
    \/ ColStart \/ RdsSendList \/ RdsSendTags \/ RdsSleep \/ ColGotInstances
    \/ CwSend \/ CwSleep \/ ColGotMetrics \/ AppPublish \/ PubPoint
    \/ AppPublished \/ ColSleep

\* the exporter: the runtime keeps polling the spawned collector task, and
\* every awaited call and sleep ends
SpecApp == AppInit /\ [][AppTask]_vars /\ WF_vars(AppTask)

\* the engine identifiers the directory may report
Engines ==
    {None, Some(""), Some("mysql"), Some("aurora-mysql"), Some("postgres"),
     Some("aurora-postgresql"), Some("MySQL"), Some("mariadb"),
     Some("postgresql"), Some("oracle-ee")}

\* the collector over a directory of one instance of any engine
EngineInit ==
    /\ fleet \in {<<[InstA EXCEPT !.engine = e]>> : e \in Engines}
    /\ fleetTags = SampleFleetTags
    /\ RdsIdle
    /\ retry_attempts = 3
    /\ CwIdle
    /\ ColIdle
    /\ PubOff

SpecEngines == EngineInit /\ [][ColTask]_vars

\* the collector over directories whose instances are tagged for the fleet
\* or not
FleetTagsInit ==
    /\ fleet \in Fleets
    /\ fleetTags \in {[a \in Arns |-> IF a = "arn:a" THEN ta ELSE tb] :
                        ta \in {<<Tag(Some(Str_env), Some(Str_prd))>>,
                                <<Tag(Some(Str_env), Some(Str_dev))>>},
                        tb \in OtherTagLists}
    /\ RdsIdle
    /\ retry_attempts = 3
    /\ CwIdle
    /\ ColIdle
    /\ PubOff

SpecFleetTags == FleetTagsInit /\ [][ColTask]_vars

\* the publisher alone, under any batches
PubInit ==
    /\ fleet = <<InstA, InstN, InstB>>
    /\ fleetTags = SampleFleetTags
    /\ RdsIdle
    /\ retry_attempts = 3
    /\ CwIdle
    /\ ColOff
    /\ PubIdle

PubNext == PubCall \/ PubPoint \/ PubReturn

SpecPub == PubInit /\ [][PubNext]_vars

\* ---------------------------------------------------------------------------
\* publish in the collector task and serve_metrics in the server, which run
\* on the threads of the runtime: each statement of publish that touches the
\* statics is a step of its own
\* ---------------------------------------------------------------------------

\* with_label_values on a gauge: the cell of these label values is created
\* with the value 0.0 when the gauge has none
WithLabelValues_Existing(gauge, values) == gauge

WithLabelValues(gauge, values) ==
    IF values \in DOMAIN gauge.cells
    THEN gauge
    ELSE [gauge EXCEPT !.cells =
            [lv \in DOMAIN gauge.cells \cup {values} |->
                IF lv = values THEN 0 ELSE gauge.cells[lv]]]

Cell(n, names, values, v) ==
    [name |-> n, label_names |-> names, values |-> values, value |-> v]

\* the batches published while requests are served
ServePoints ==
    {PubPoint_(1, Str_CPU, <<TagEntry("instance_id", "a")>>),
     PubPoint_(2, Str_CPU, <<TagEntry("instance_id", "a")>>),
     PubPoint_(1, Str_CPU, <<TagEntry("instance_id", "b")>>),
     PubPoint_(1, Str_CPU, <<TagEntry("instance_id", "a"), TagEntry("engine", "b")>>),
     PubPoint_(1, Str_IO, <<TagEntry("instance_id", "a")>>)}

\* publish(metrics) is called
ServeCall ==
    /\ pubPc = "idle"
    /\ pubPc' = "loop"
    /\ \E batch \in SeqsUpTo(ServePoints, MaxBatch) : pubBatch' = batch
    /\ pubLog' = <<>>
    /\ pubBefore' = METRICS
    /\ UNCHANGED <<METRICS, REGISTRY, serveVars>>
    /\ UNCHANGED <<cwVars, rdsVars, colVars, thVars>>

\* the cells a gauge gives to REGISTRY.gather()
collect(n, gauge) ==
    {Cell(n, gauge.label_names, lv, gauge.cells[lv]) : lv \in DOMAIN gauge.cells}

\* self.get_or_create_metric(..), under the write lock of METRICS
PubGetOrCreate ==
    /\ pubPc = "loop"
    /\ pubBatch # <<>>
    /\ LET metric == Head(pubBatch)
           metric_name == create_metric_name(metric)
           label_names == label_names_of(metric.additional_tags)
       IN  IF MetricsGet(METRICS, metric_name, label_names)
           THEN /\ pubPc' = "gauge"
                /\ UNCHANGED <<METRICS, REGISTRY, pubBatch, pubLog>>
           ELSE IF GaugeVecNewOk(label_names) /\ metric_name \notin REGISTRY
           THEN /\ REGISTRY' = REGISTRY \cup {metric_name}
                /\ METRICS' = [METRICS EXCEPT ![metric_name] = GaugeVec(label_names)]
                /\ pubPc' = "gauge"
                /\ UNCHANGED <<pubBatch, pubLog>>
           ELSE /\ pubPc' = "loop"
                /\ pubBatch' = Tail(pubBatch)
                /\ pubLog' = Append(pubLog,
                        PubEntry(metric, Conflicts(METRICS, metric), "dropped"))
                /\ UNCHANGED <<METRICS, REGISTRY>>
    /\ UNCHANGED <<pubBefore, serveVars>>
    /\ UNCHANGED <<cwVars, rdsVars, colVars, thVars>>

\* let metric_gauge = gauge.with_label_values(&label_values)
PubWithLabelValues ==
    /\ pubPc = "gauge"
    /\ LET metric == Head(pubBatch)
           metric_name == create_metric_name(metric)
           label_names == label_names_of(metric.additional_tags)
           label_values == label_values_of(metric.additional_tags, label_names)
       IN  IF WithLabelValuesOk(METRICS[metric_name], label_values)
           THEN /\ METRICS' = [METRICS EXCEPT ![metric_name] =
                        WithLabelValues(@, label_values)]
                /\ pubPc' = "cell"
                /\ UNCHANGED <<pubBatch, pubLog>>
           ELSE /\ pubPc' = "panicked"
                /\ pubBatch' = Tail(pubBatch)
                /\ pubLog' = Append(pubLog,
                        PubEntry(metric, Conflicts(METRICS, metric), "panic"))
                /\ UNCHANGED METRICS
    /\ UNCHANGED <<REGISTRY, pubBefore, serveVars>>
    /\ UNCHANGED <<cwVars, rdsVars, colVars, thVars>>

\* metric_gauge.set(metric.value)
PubSet ==
    /\ pubPc = "cell"
    /\ LET metric == Head(pubBatch)
           metric_name == create_metric_name(metric)
           label_names == label_names_of(metric.additional_tags)
           label_values == label_values_of(metric.additional_tags, label_names)
       IN  /\ pubLog' = Append(pubLog,
                    PubEntry(metric, Conflicts(METRICS, metric), "set"))
           /\ METRICS' = [METRICS EXCEPT ![metric_name] =
                    SetCell(@, label_values, metric.value)]
           /\ everSet' = everSet \cup
                    {Cell(metric_name, METRICS[metric_name].label_names,
                          label_values, metric.value)}
    /\ pubBatch' = Tail(pubBatch)
    /\ pubPc' = "loop"
    /\ UNCHANGED <<REGISTRY, pubBefore, servePc, gathered>>
    /\ UNCHANGED <<cwVars, rdsVars, colVars, thVars>>

\* serve_metrics: let metrics = publisher.gather(), the cells of the gauges
\* registered in REGISTRY
ServeGather ==
    /\ servePc = "idle"
    /\ servePc' = "encode"
    /\ gathered' = UNION {collect(n, METRICS[n]) : n \in REGISTRY}
    /\ UNCHANGED <<METRICS, REGISTRY, pubPc, pubBatch, pubLog, pubBefore, everSet>>
    /\ UNCHANGED <<cwVars, rdsVars, colVars, thVars>>

\* serve_metrics: the snapshot is encoded and returned
ServeReply ==
    /\ servePc = "encode"
    /\ servePc' = "idle"
    /\ gathered' = {}
    /\ UNCHANGED <<METRICS, REGISTRY, pubPc, pubBatch, pubLog, pubBefore, everSet>>
    /\ UNCHANGED <<cwVars, rdsVars, colVars, thVars>>

ServeInit ==
    /\ fleet = <<InstA, InstN, InstB>>
    /\ fleetTags = SampleFleetTags
    /\ RdsIdle
    /\ retry_attempts = 3
    /\ CwIdle
    /\ ColOff
    /\ pubPc = "idle"
    /\ METRICS = [n \in SeriesNames |-> NoGauge]
    /\ REGISTRY = {}
    /\ pubBatch = <<>>
    /\ pubLog = <<>>
    /\ pubBefore = METRICS
    /\ servePc = "idle"
    /\ gathered = {}
    /\ everSet = {}
    /\ ThOff

ServeNext ==
    \/ ServeCall \/ PubGetOrCreate \/ PubWithLabelValues \/ PubSet \/ PubReturn
    \/ ServeGather \/ ServeReply

SpecServe == ServeInit /\ [][ServeNext]_vars


\* ---------------------------------------------------------------------------
\* publish called through several handles of the publisher, each on a thread
\* of its own: the statements of get_or_create_metric are steps of their own
\* ---------------------------------------------------------------------------

CanLock_Always(holder) == TRUE

\* METRICS.write(): granted when no other guard is alive
CanLock(holder) == holder = 0

HandlePoints ==
    {PubPoint_(1, Str_CPU, <<TagEntry("instance_id", "a")>>),
     PubPoint_(1, Str_CPU, <<TagEntry("engine", "a")>>),
     PubPoint_(1, Str_IO, <<TagEntry("instance_id", "a")>>),
     PubPoint_(1, Str_CPU, <<TagEntry("bad-key", "a")>>)}

\* the handle goes from its statement to the next, with or without a result
\* of get_or_create_metric, dropping the guard or keeping it
HStep(h, pc, result, holder) ==
    /\ thPc' = [thPc EXCEPT ![h] = pc]
    /\ thResult' = [thResult EXCEPT ![h] = result]
    /\ lockHolder' = holder
    /\ UNCHANGED <<pubPc, pubBatch, pubLog, pubBefore, serveVars>>
    /\ UNCHANGED <<cwVars, rdsVars, colVars>>

\* publish(vec![point]) is called through handle h
HPublish(h) ==
    /\ thPc[h] = "idle"
    /\ \E point \in HandlePoints : thPoint' = [thPoint EXCEPT ![h] = point]
    /\ HStep(h, "lock", "None", lockHolder)
    /\ UNCHANGED <<METRICS, REGISTRY>>

\* let mut metrics = METRICS.write()
HLock(h) ==
    /\ thPc[h] = "lock"
    /\ CanLock(lockHolder)
    /\ HStep(h, "get", "None", h)
    /\ UNCHANGED <<METRICS, REGISTRY, thPoint>>

\* if let Some(gauge) = metrics.get(name) { return Ok(gauge.clone()) }
HGet(h) ==
    /\ thPc[h] = "get"
    /\ LET metric_name == create_metric_name(thPoint[h])
           label_names == label_names_of(thPoint[h].additional_tags)
       IN  IF MetricsGet(METRICS, metric_name, label_names)
           THEN HStep(h, "values", "Ok", 0)
           ELSE HStep(h, "new", "None", lockHolder)
    /\ UNCHANGED <<METRICS, REGISTRY, thPoint>>

\* let gauge = GaugeVec::new(opts, label_names)?
HNew(h) ==
    /\ thPc[h] = "new"
    /\ IF GaugeVecNewOk(label_names_of(thPoint[h].additional_tags))
       THEN HStep(h, "register", "None", lockHolder)
       ELSE HStep(h, "idle", "NewErr", 0)
    /\ UNCHANGED <<METRICS, REGISTRY, thPoint>>

\* REGISTRY.register(Box::new(gauge.clone())): Err for a name registered
HRegister(h) ==
    /\ thPc[h] = "register"
    /\ LET metric_name == create_metric_name(thPoint[h])
       IN  IF metric_name \notin REGISTRY
           THEN /\ REGISTRY' = REGISTRY \cup {metric_name}
                /\ HStep(h, "insert", "None", lockHolder)
           ELSE /\ HStep(h, "idle", "RegisterErr", 0)
                /\ UNCHANGED REGISTRY
    /\ UNCHANGED <<METRICS, thPoint>>

\* metrics.insert(name.to_string(), gauge.clone()); Ok(gauge)
HInsert(h) ==
    /\ thPc[h] = "insert"
    /\ LET metric_name == create_metric_name(thPoint[h])
           label_names == label_names_of(thPoint[h].additional_tags)
       IN  METRICS' = [METRICS EXCEPT ![metric_name] = GaugeVec(label_names)]
    /\ HStep(h, "values", "Ok", 0)
    /\ UNCHANGED <<REGISTRY, thPoint>>

\* gauge.with_label_values(&label_values).set(metric.value); publish returns
HSet(h) ==
    /\ thPc[h] = "values"
    /\ LET metric == thPoint[h]
           metric_name == create_metric_name(metric)
           label_names == label_names_of(metric.additional_tags)
           label_values == label_values_of(metric.additional_tags, label_names)
       IN  IF WithLabelValuesOk(METRICS[metric_name], label_values)
           THEN /\ METRICS' = [METRICS EXCEPT ![metric_name] =
                        SetCell(@, label_values, metric.value)]
                /\ HStep(h, "idle", thResult[h], lockHolder)
           ELSE /\ HStep(h, "panicked", thResult[h], lockHolder)
                /\ UNCHANGED METRICS
    /\ UNCHANGED <<REGISTRY, thPoint>>

HandlesInit ==
    /\ fleet = <<InstA, InstN, InstB>>
    /\ fleetTags = SampleFleetTags
    /\ RdsIdle
    /\ retry_attempts = 3
    /\ CwIdle
    /\ ColOff
    /\ pubPc = "off"
    /\ METRICS = [n \in SeriesNames |-> NoGauge]
    /\ REGISTRY = {}
    /\ pubBatch = <<>>
    /\ pubLog = <<>>
    /\ pubBefore = METRICS
    /\ ServeOff
    /\ lockHolder = 0
    /\ thPc = [h \in Handles |-> "idle"]
    /\ thPoint = [h \in Handles |-> <<>>]
    /\ thResult = [h \in Handles |-> "None"]

HandlesNext ==
    \E h \in Handles :
        \/ HPublish(h) \/ HLock(h) \/ HGet(h) \/ HNew(h) \/ HRegister(h)
        \/ HInsert(h) \/ HSet(h)

SpecHandles == HandlesInit /\ [][HandlesNext]_vars


(***************************************************************************)
(* Claims about RdsInstanceManager, checked under SpecRdsTags (any tag     *)
(* assignment) and SpecRds (fleet and clock changing).                     *)
(***************************************************************************)
LowerCased(str) == [i \in 1..Len(str) |-> to_ascii_lowercase(str[i])]

SameIgnoringCase(opt, str) == opt # None /\ LowerCased(opt[1]) = LowerCased(str)

HasTagFor(filter, tags) ==
    \E t \in Range(tags) :
        SameIgnoringCase(t.key, filter.key) /\ SameIgnoringCase(t.value, filter.value)

RdsFreshOk == rdsPc = "done" /\ rdsResult.kind = "Ok" /\ rdsOps > 0

\* C1: every instance a fresh get_instances_by_tags(F) returns has, for every
\* filter of F, a tag in the directory whose key and value equal the
\* filter's ignoring ASCII case; so an instance that lacks such a tag for
\* some filter is not returned.
C1_OnlyMatchingInstances ==
    RdsFreshOk =>
        \A inst \in Range(rdsResult.instances) :
            /\ inst.db_instance_arn # None
            /\ \A f \in Range(filters) :
                    HasTagFor(f, fleetTags[inst.db_instance_arn[1]])

C1_Witness ==
    /\ RdsFreshOk
    /\ Len(filters) = 2
    /\ \E inst \in Range(rdsResult.instances) :
            \E f \in Range(filters) :
                \A t \in Range(fleetTags[inst.db_instance_arn[1]]) :
                    ~ (t.key = Some(f.key) /\ t.value = Some(f.value))
    /\ \E inst \in Range(fleet) :
            /\ inst.db_instance_arn # None
            /\ inst \notin Range(rdsResult.instances)
            /\ HasTagFor(filters[1], fleetTags[inst.db_instance_arn[1]])
            /\ ~ HasTagFor(filters[2], fleetTags[inst.db_instance_arn[1]])

AgeAtCall == atCall.now - atCall.entry.timestamp

RdsCallOpen == rdsPc # "idle"

RdsCallBegins == rdsPc = "idle" /\ rdsPc' # "idle"

ServedFromCache ==
    /\ rdsPc = "done"
    /\ rdsOps = 0
    /\ rdsResult = RdsOk(atCall.entry.instances)
    /\ cache[filters] = atCall.entry

\* C2 as stated: a call that finds an entry for F of age < cache_ttl is served
\* from the cache.
C2_FreshEntryServed_AsStated ==
    (RdsCallOpen /\ atCall.entry.present /\ AgeAtCall < cache_ttl) => ServedFromCache

\* C2: a call that finds an entry for F whose age is at least 0 and less
\* than cache_ttl sends no network call, returns the stored sequence and
\* leaves the cache as it is.
C2_FreshEntryServed ==
    /\ [](RdsCallOpen /\ atCall.entry.present /\ 0 <= AgeAtCall /\ AgeAtCall < cache_ttl
            => ServedFromCache)
    /\ [][RdsCallBegins => cache' = cache]_vars

C2_Witness ==
    /\ ServedFromCache
    /\ atCall.entry.present
    /\ atCall.entry.instances # <<>>
    /\ fleet = <<InstB, InstA>>
    /\ atCall.entry.instances = <<InstA, InstB>>

\* C3: a call that finds no entry for F, or one of age >= cache_ttl, fetches
\* from the directory; when the fetch succeeds the entry for F is replaced by
\* the fetched sequence stamped with the clock of that moment, which a call
\* at that moment is served from.
C3_ExpiredEntryReplaced ==
    /\ [](RdsCallOpen /\ (~ atCall.entry.present \/ AgeAtCall >= cache_ttl)
            => /\ rdsPc = "done" => rdsOps > 0
               /\ RdsFreshOk =>
                    /\ cache[filters].present
                    /\ cache[filters].instances = rdsResult.instances)
    /\ [][(RdsCallOpen /\ rdsPc # "done" /\ rdsPc' = "done" /\ rdsResult'.kind = "Ok")
            => /\ cache' = [cache EXCEPT
                    ![filters] = CacheEntry(rdsResult'.instances, now)]
               /\ now - cache'[filters].timestamp < cache_ttl]_vars

C3_Witness ==
    /\ RdsFreshOk
    /\ atCall.entry.present
    /\ AgeAtCall >= cache_ttl
    /\ atCall.entry.instances # rdsResult.instances
    /\ cache[filters] = CacheEntry(rdsResult.instances, now)
    /\ rdsResult.instances # <<>>


(***************************************************************************)
(* Claims about CloudWatchCollector, checked under SpecCw.                 *)
(***************************************************************************)
CwCallOpen == cwPc # "idle"

HasEmptyName(metrics) ==
    \E i \in 1..Len(metrics) : metrics[i].namespace = "" \/ metrics[i].metric_name = ""

AllServiceErrors(log) == \A i \in 1..Len(log) : log[i].kind = "err"

\* C4: a call whose tuple list holds, at any position, a tuple with an empty
\* namespace or an empty metric name ends with InvalidParameter, and no
\* send() is made for it and it never waits for a retry.
C4_ValidationBeforeNetwork ==
    (CwCallOpen /\ HasEmptyName(cwInput)) =>
        /\ cwPc = "done"
        /\ cwResult.kind = "InvalidParameter"
        /\ cwLog = <<>>

C4_Witness ==
    /\ cwPc = "done"
    /\ Len(cwInput) = 2
    /\ ~ HasEmptyName(<<cwInput[1]>>)
    /\ cwInput[2].metric_name = ""
    /\ cwInput[2].namespace # ""
    /\ cwResult.kind = "InvalidParameter"

\* C5: an attempt that times out is the last attempt of its call: the call
\* has ended with the Timeout error, not RetryExhausted; so a call whose
\* first attempt times out has made exactly one attempt.
C5_TimeoutNeverRetried ==
    \A i \in 1..Len(cwLog) :
        cwLog[i].kind = "timeout" =>
            /\ i = Len(cwLog)
            /\ cwPc = "done"
            /\ cwResult.kind = "Timeout"

C5_Witness ==
    /\ cwPc = "done"
    /\ Len(cwLog) = 2
    /\ cwLog[1].kind = "err"
    /\ cwLog[2].kind = "timeout"
    /\ cwResult.kind = "Timeout"
    /\ retry_attempts = 3

\* C6: after N < retry_attempts attempts that all failed with a service
\* error the call goes on to attempt N+1, and when attempt N+1 succeeds the
\* call has ended after exactly N+1 attempts with the response of that
\* attempt and nothing else.
C6_SuccessAfterRetries ==
    /\ \A i \in 1..Len(cwLog) :
            cwLog[i].kind = "ok" =>
                /\ i = Len(cwLog)
                /\ AllServiceErrors(SubSeq(cwLog, 1, i - 1))
                /\ cwPc = "done"
                /\ cwResult = CwOk(cwLog[i].response)
    /\ (CwCallOpen /\ ~ HasEmptyName(cwInput) /\ AllServiceErrors(cwLog)
            /\ Len(cwLog) < retry_attempts) => cwPc \in {"send", "sleep"}

C6_Witness ==
    /\ cwPc = "done"
    /\ retry_attempts = 3
    /\ Len(cwLog) = 3
    /\ cwLog[3].kind = "ok"
    /\ Len(cwLog[3].response) = 2
    /\ cwResult.kind = "Ok"

\* C7: a call in which every attempt failed with a service error has made
\* exactly retry_attempts attempts when it ends, never more, and ends with
\* RetryExhausted carrying the description of the last failure.
C7_RetryExhausted ==
    /\ Len(cwLog) <= retry_attempts
    /\ (cwPc = "done" /\ ~ HasEmptyName(cwInput) /\ AllServiceErrors(cwLog)) =>
            /\ Len(cwLog) = retry_attempts
            /\ cwResult.kind = "RetryExhausted"
            /\ Len(cwLog) > 0 => cwResult.msg = cwLog[Len(cwLog)].err

C7_Witness ==
    /\ cwPc = "done"
    /\ cwResult.kind = "RetryExhausted"
    /\ Len(cwLog) = 3
    /\ cwLog[1].err # cwLog[3].err
    /\ cwLog[2].err # cwLog[3].err

\* ---------------------------------------------------------------------------
\* The collector's cycle
\* ---------------------------------------------------------------------------

\* C8: every data point built from the result with id m_k carries the metric
\* name of the query sent under m_k, whatever the order in which the service
\* returned the results and whichever results it left out.
C8_NamedByQueryId ==
    \A i \in 1..Len(all_metrics) : all_metrics[i].metric_name = all_metrics[i].asked

LoopOver == colPc \in {"publish", "sleep"}

RECURSIVE PointsOfLog(_)
PointsOfLog(log) ==
    IF log = <<>> THEN <<>>
    ELSE PointsOf(Head(log).instance, Head(log).queries, Head(log).result)
         \o PointsOfLog(Tail(log))

\* C10: a failed query of one instance does not end the loop: once the loop
\* is over every discovered instance has been queried, in order, and the
\* batch, which is what each publisher receives, is the concatenation of the
\* points of the instances whose query succeeded, each instance's points
\* being those of its own response alone.
C10_FailureIsolated ==
    /\ all_metrics = PointsOfLog(colLog)
    /\ LoopOver =>
        /\ Len(colLog) = Len(instances)
        /\ \A i \in 1..Len(colLog) :
            /\ colLog[i].instance = instances[i]
            /\ colLog[i].queries = BuildQueries(metric_tuples(instances[i]))
    /\ \A d \in 1..Len(delivered) : delivered[d].batch = all_metrics

C10_Witness ==
    /\ colPc = "publish"
    /\ pubPos = NumPublishers
    /\ Len(colLog) = 2
    /\ colLog[1].result.kind = "Timeout"
    /\ colLog[2].result.kind = "Ok"
    /\ all_metrics # <<>>
    /\ \A i \in 1..Len(all_metrics) :
        all_metrics[i].additional_tags["instance_id"]
            = unwrap_or_default(instances[2].db_instance_identifier)

\* ---------------------------------------------------------------------------
\* The Prometheus publisher
\* ---------------------------------------------------------------------------

\* C9: a point published for an existing series name under a label-key set
\* other than the one the series was created with is dropped: publish does
\* not panic, goes on with the batch, and sets no cell for that point.
C9_ConflictDropped ==
    /\ pubPc # "panicked"
    /\ \A i \in 1..Len(pubLog) :
        pubLog[i].conflict => pubLog[i].outcome = "dropped"

\* ---------------------------------------------------------------------------
\* The directory listing under failures
\* ---------------------------------------------------------------------------

HasArn(inst) == inst.db_instance_arn # None

LookupOk(arn) == \E i \in 1..Len(rdsLog) : rdsLog[i].arn = arn /\ rdsLog[i].outcome = "Ok"

KeptByListing(inst) ==
    /\ HasArn(inst)
    /\ LookupOk(inst.db_instance_arn[1])
    /\ all_filters_match(filters, fleetTags[inst.db_instance_arn[1]])

FreshListingDone == rdsPc = "done" /\ rdsOps > 0

\* C11: a tag lookup that fails after its retries never fails the listing;
\* when a fresh listing ends in success every instance with an ARN, on every
\* page, has been looked up, in the order of the directory, and the result is
\* exactly the instances whose lookup succeeded and whose tags match.
C11_FailedLookupSkipped ==
    /\ rdsResult.kind = "Err" => rdsResult.err # "TagLookupError"
    /\ (FreshListingDone /\ rdsResult.kind = "Ok") =>
        /\ [i \in 1..Len(rdsLog) |-> Some(rdsLog[i].arn)]
            = [i \in 1..Len(SelectSeq(fleet, HasArn)) |->
                    SelectSeq(fleet, HasArn)[i].db_instance_arn]
        /\ rdsResult.instances = SelectSeq(fleet, KeptByListing)

C11_Witness ==
    /\ FreshListingDone
    /\ fleet = <<InstB, InstA>>
    /\ Len(rdsLog) = 2
    /\ rdsLog[1].outcome # "Ok"
    /\ rdsResult = RdsOk(<<InstA>>)

\* ---------------------------------------------------------------------------
\* The collection loop under failures
\* ---------------------------------------------------------------------------

C13_EveryPublisherOnce ==
    /\ delivered # <<>> =>
        /\ colListing = "Ok"
        /\ LoopOver
        /\ Len(colLog) = Len(instances)
    /\ Len(delivered) <= NumPublishers
    /\ \A d \in 1..Len(delivered) :
        /\ delivered[d].publisher = d
        /\ delivered[d].batch = PointsOfLog(colLog)
    /\ (colPc = "sleep" /\ colListing = "Ok") =>
        /\ Len(delivered) = NumPublishers
        /\ colResult = "Ok"

C13_Witness ==
    /\ colPc = "sleep"
    /\ Len(delivered) = NumPublishers
    /\ delivered[1].outcome = "Err"
    /\ delivered[NumPublishers].outcome = "Ok"
    /\ delivered[NumPublishers].batch # <<>>
    /\ colResult = "Ok"

Collecting == colPc \in {"directory", "query", "publish"}

\* C14: whatever happens in a cycle the collector task does not end, and a
\* new cycle is always started again.
C14_AlwaysAnotherCycle ==
    /\ [](pubPc # "panicked")
    /\ []<>(colPc = "sleep")
    /\ []<>Collecting

\* ---------------------------------------------------------------------------
\* The cells of the registry
\* ---------------------------------------------------------------------------

\* the labels of a point: each tag key with the point's value for it
LabelsOfPoint(metric) ==
    [k \in Range(label_names_of(metric.additional_tags)) |->
        TagsGet(metric.additional_tags, k)]

\* the labels of a cell: each label name of the series with the cell's value
\* at the position of that name
LabelsOfCell(gauge, values) ==
    [k \in Range(gauge.label_names) |->
        values[CHOOSE i \in 1..Len(gauge.label_names) : gauge.label_names[i] = k]]

\* the cells of a series as a snapshot shows them
CellsOf(gauge) ==
    {[labels |-> LabelsOfCell(gauge, lv), value |-> gauge.cells[lv]] :
        lv \in DOMAIN gauge.cells}

Accepted(n) ==
    {i \in 1..Len(pubLog) :
        pubLog[i].outcome = "set" /\ create_metric_name(pubLog[i].metric) = n}

Max(S) == CHOOSE x \in S : \A y \in S : y <= x

LastAccepted(n, labels) ==
    Max({i \in Accepted(n) : LabelsOfPoint(pubLog[i].metric) = labels})

\* C15: while and after a batch is published, the cell of every series and
\* label-value combination that an accepted point of the batch names holds
\* the value of the last such point, and every other cell is as it was
\* before the batch.
C15_LastValueWins ==
    \A n \in DOMAIN METRICS :
        LET touched == {LabelsOfPoint(pubLog[i].metric) : i \in Accepted(n)}
        IN  /\ \A labels \in touched :
                [labels |-> labels,
                 value |-> pubLog[LastAccepted(n, labels)].metric.value]
                    \in CellsOf(METRICS[n])
            /\ \A c \in CellsOf(pubBefore[n]) :
                c.labels \notin touched => c \in CellsOf(METRICS[n])
            /\ \A c \in CellsOf(METRICS[n]) :
                c.labels \notin touched => c \in CellsOf(pubBefore[n])

\* C16: a directory call whose attempts have all failed reports
\* RetryExhausted: a failed listing returns it, and a failed tag lookup ends
\* with it.
C16_ExhaustionReported ==
    /\ rdsResult.kind = "Err" => rdsResult.err = "RetryExhausted"
    /\ \A i \in 1..Len(rdsLog) : rdsLog[i].outcome \in {"Ok", "RetryExhausted"}

\* ---------------------------------------------------------------------------
\* The metric set of an engine
\* ---------------------------------------------------------------------------

MysqlSpecific ==
    <<"Queries", "ThreadsRunning", "InnodbBufferPoolHits",
      "InnodbBufferPoolReadRequests", "InnodbBufferPoolReads", "DeadlocksCount">>

PostgresSpecific ==
    <<"ActiveTransactions", "BufferCacheHitRatio", "IndexHitRatio", "Deadlocks",
      "TemporaryTables", "ReplicationLag", "CheckpointDuration",
      "WALWriteLatency">>

SpecificFor(engine) ==
    IF engine \in {Some("mysql"), Some("aurora-mysql")} THEN MysqlSpecific
    ELSE IF engine \in {Some("postgres"), Some("aurora-postgresql")}
         THEN PostgresSpecific
    ELSE <<>>

\* C17: the names queried for an instance are the common list followed by
\* the names of its engine family, nothing for any other engine or none; the
\* tuples, and the queries m0, m1, ... built from them, come in that order.
C17_MetricSetOfEngine ==
    colPc = "query" =>
        LET instance == instances[instPos]
            names == get_common_metrics \o SpecificFor(instance.engine)
        IN  /\ Len(cwInput) = Len(names)
            /\ Len(cwQueries) = Len(names)
            /\ \A i \in 1..Len(names) :
                /\ cwInput[i].metric_name = names[i]
                /\ cwInput[i].namespace = "AWS/RDS"
                /\ cwInput[i].dimension_value = "db-a"
                /\ cwQueries[i].metric_name = names[i]
                /\ cwQueries[i].id = <<"m", i - 1>>

C17_Witness ==
    /\ colPc = "query"
    /\ instances[instPos].engine = Some("MySQL")
    /\ Len(cwQueries) = 20
    /\ cwPc = "send"

\* ---------------------------------------------------------------------------
\* End to end: the fleet filter and the batch
\* ---------------------------------------------------------------------------

InFleet(inst) ==
    /\ inst \in Range(fleet)
    /\ inst.db_instance_arn # None
    /\ HasTagFor(TagFilter(Str_env, Str_prd), fleetTags[inst.db_instance_arn[1]])

PointOf(insts, point) ==
    \E inst \in insts :
        /\ inst.db_instance_identifier = Some(point.additional_tags["instance_id"])
        /\ point.metric_name
            \in Range(get_common_metrics \o SpecificFor(inst.engine))

\* C18: only instances whose tags in the directory satisfy env=prd are
\* queried, and every data point of the batch, and of what the publishers
\* receive, carries the identifier of such an instance and a metric name of
\* the metric set of that instance's engine.
C18_OnlyFleetInstances ==
    LET passing == {inst \in Range(fleet) : InFleet(inst)} IN
    /\ Range(instances) \subseteq passing
    /\ colPc = "query" =>
        \A i \in 1..Len(cwInput) :
            \E inst \in passing :
                inst.db_instance_identifier = Some(cwInput[i].dimension_value)
    /\ \A i \in 1..Len(colLog) : colLog[i].instance \in passing
    /\ \A i \in 1..Len(all_metrics) : PointOf(passing, all_metrics[i])
    /\ \A d \in 1..Len(delivered) :
        \A i \in 1..Len(delivered[d].batch) :
            PointOf(passing, delivered[d].batch[i])

C18_Witness ==
    /\ colPc = "publish"
    /\ fleet = <<InstA, InstN, InstB>>
    /\ fleetTags["arn:b"] = <<Tag(Some(Str_env), Some(Str_dev))>>
    /\ instances = <<InstA>>
    /\ rdsOps = 0
    /\ Len(delivered) = NumPublishers
    /\ Len(all_metrics) = 3
    /\ \A i \in 1..Len(all_metrics) :
        all_metrics[i].additional_tags["instance_id"] = "db-a"


\* ---------------------------------------------------------------------------
\* Label names and label values
\* ---------------------------------------------------------------------------

\* the cells of a series that a step writes: created, or set to another value
Written(before, after) ==
    {lv \in DOMAIN after.cells :
        lv \notin DOMAIN before.cells \/ before.cells[lv] # after.cells[lv]}

SameKeySet(metric, gauge) ==
    Range(label_names_of(metric.additional_tags)) = Range(gauge.label_names)

\* C20: when publish handles a point whose tag-key set is the label-name set
\* of its series, the cell it writes gives each label name the point's own
\* value for that key, whatever the order in which the point's map yields
\* its keys.
C20_NamesAndValuesPaired ==
    [][(pubPc = "loop" /\ pubBatch # <<>>) =>
        LET metric == Head(pubBatch)
            n == create_metric_name(metric)
        IN  SameKeySet(metric, METRICS'[n]) =>
                \A lv \in Written(METRICS[n], METRICS'[n]) :
                    LabelsOfCell(METRICS'[n], lv) = LabelsOfPoint(metric)]_vars


\* ---------------------------------------------------------------------------
\* A snapshot taken while a batch is published
\* ---------------------------------------------------------------------------

\* C19: every cell of a snapshot belongs to a registered series, carries the
\* series' label names with as many values, and holds a value that a publish
\* has set for that series and those label values.
C19_SnapshotOfSetValues ==
    \A c \in gathered :
        /\ c.name \in REGISTRY
        /\ c.label_names = METRICS[c.name].label_names
        /\ Len(c.values) = Len(c.label_names)
        /\ c \in everSet

\* ---------------------------------------------------------------------------
\* The retries of a directory call
\* ---------------------------------------------------------------------------

RECURSIVE Pow2(_)
Pow2(n) == IF n = 0 THEN 1 ELSE 2 * Pow2(n - 1)

Attempting == rdsPc \in {"list", "tags"}
Waiting == rdsPc \in {"listSleep", "tagsSleep"}

\* the step is a send(): the first of its call, or one after failed attempts
Sends == Attempting /\ (rdsOps' # rdsOps \/ rdsAttempts' # rdsAttempts)

\* the step is a send() that succeeded
ListSucceeds == rdsPc = "list" /\ Sends /\ last_error' = None
TagsSucceed == rdsPc = "tags" /\ Len(rdsLog') > Len(rdsLog) /\ rdsLog'[Len(rdsLog')].outcome = "Ok"

\* C21: a directory call is about to make attempt k+1 only for k below
\* max_retries; it waits only after k failed attempts with 1 <= k <
\* max_retries, and the wait is retry_delay * 2^(k-1); the first successful
\* attempt is followed by no wait and no further attempt of that call, and
\* its response is what the listing goes on with.
C21_BackoffAndAttempts ==
    /\ [](rdsAttempts <= max_retries)
    /\ [](Attempting => rdsAttempts < max_retries)
    /\ [](Waiting => /\ rdsAttempts >= 1
                     /\ rdsAttempts < max_retries
                     /\ delay = retry_delay * Pow2(rdsAttempts - 1))
    /\ [][Waiting' /\ ~Waiting => Attempting /\ last_error' # None
                                    /\ rdsAttempts' = rdsAttempts + 1]_vars
    /\ [][ListSucceeds =>
            LET pg == ListPage(fleet, next_token, page_size) IN
            /\ ~Waiting'
            /\ rdsAttempts' = 0
            /\ response' \in {pg, NoPage}
            /\ response' = NoPage => next_token' = pg.marker]_vars
    /\ [][TagsSucceed =>
            LET instance == response.db_instances[idx]
                tags == fleetTags[instance.db_instance_arn[1]]
            IN  /\ ~Waiting'
                /\ rdsAttempts' = 0
                /\ filtered_instances' =
                    IF \A i \in 1..Len(filters) : matches(filters[i], tags)
                    THEN Append(filtered_instances, instance)
                    ELSE filtered_instances]_vars

\* a call waits before its third and last attempt
C21_Witness ==
    /\ Waiting
    /\ rdsAttempts = 2
    /\ delay = 2 * retry_delay

\* ---------------------------------------------------------------------------
\* The pages of a listing
\* ---------------------------------------------------------------------------

\* the pages the directory cuts the fleet into
PageCount == (Len(fleet) + page_size - 1) \div page_size

\* the page the listing stands on: the one being requested, or the one whose
\* instances are being looked up
RequestedPage == ListPage(fleet, next_token, page_size)

\* C22: with the directory at rest, a fresh listing requests its first page
\* without a token; a failed attempt and its wait keep the token; the tag
\* lookups work on the page requested with the current token; the token
\* changes only to the marker that page returned, and then that next page is
\* requested; the listing ends in success only on a page without a marker,
\* after one request per page and one lookup per instance with an ARN, with
\* the matching instances in the order of the pages and within them.
C22_PagesInOrder ==
    /\ [][RdsCallBegins /\ rdsPc' = "list" => next_token' = None]_vars
    /\ [][(rdsPc' = "listSleep" \/ rdsPc = "listSleep") => next_token' = next_token]_vars
    /\ [](rdsPc \in {"tags", "tagsSleep"} => response = RequestedPage)
    /\ [][(next_token' # next_token /\ rdsPc \in {"list", "tags"}) =>
            /\ next_token' = RequestedPage.marker
            /\ RequestedPage.marker # None => rdsPc' = "list" /\ rdsAttempts' = 0
            /\ RequestedPage.marker = None => rdsPc' = "done" /\ rdsResult'.kind = "Ok"]_vars
    /\ [][(RdsCallOpen /\ rdsPc # "done" /\ rdsPc' = "done" /\ rdsResult'.kind = "Ok")
            => RequestedPage.marker = None]_vars
    /\ [](RdsFreshOk =>
            /\ rdsOps = PageCount + Len(SelectSeq(fleet, HasArn))
            /\ rdsResult.instances = SelectSeq(fleet, KeptByListing))

\* a listing of two pages has returned an instance of each
C22_Witness ==
    /\ RdsFreshOk
    /\ fleet = <<InstA, InstN, InstB>>
    /\ PageCount = 2
    /\ rdsOps = 4
    /\ rdsResult = RdsOk(<<InstA, InstB>>)

\* ---------------------------------------------------------------------------
\* A listing that fails
\* ---------------------------------------------------------------------------

ListingFailed == rdsPc = "done" /\ rdsResult.kind = "Err"

\* C23 as stated: the call that follows a failed listing over an expired
\* entry, for the same filters, fetches again.
C23_NextCallFetches_AsStated ==
    [][(RdsCallBegins /\ failedOn = Some(filters')) => rdsPc' = "list"]_vars

\* C23: a listing that fails on any page returns an error with no
\* instances; during a call the cache changes only when the listing ends in
\* success, so after the failure every entry is as it was when the call
\* began; and the call that follows a failed listing over an expired entry,
\* for the same filters, fetches again when the entry's age is still at
\* least cache_ttl on the clock of that call.
C23_FailedListingLeavesNoTrace ==
    /\ [](ListingFailed =>
            /\ rdsResult.instances = <<>>
            /\ rdsOps > 0
            /\ cache[filters] = atCall.entry)
    /\ [][(RdsCallOpen /\ cache' # cache) =>
            rdsPc # "done" /\ rdsPc' = "done" /\ rdsResult'.kind = "Ok"]_vars
    /\ [][(RdsCallBegins /\ failedOn = Some(filters')
                /\ now - cache[filters'].timestamp >= cache_ttl)
            => rdsPc' = "list" /\ cache[filters'].present]_vars

\* the second page of a listing has failed after an instance of the first
\* page was accepted, over an expired entry
C23_Witness ==
    /\ ListingFailed
    /\ next_token # None
    /\ LookupOk("arn:a")
    /\ all_filters_match(filters, fleetTags["arn:a"])
    /\ atCall.entry.present
    /\ AgeAtCall >= cache_ttl
    /\ cache[filters] = atCall.entry

\* ---------------------------------------------------------------------------
\* A listing with a failed tag lookup, and the cache
\* ---------------------------------------------------------------------------

\* the instances of the directory that pass the filters fs
Passing(fs) ==
    {inst \in Range(fleet) :
        /\ inst.db_instance_arn # None
        /\ \A f \in Range(fs) : HasTagFor(f, fleetTags[inst.db_instance_arn[1]])}

\* the entry lacks an instance that passes the filters: its lookup had failed
Partial(entry, fs) ==
    entry.present /\ \E inst \in Passing(fs) : inst \notin Range(entry.instances)

\* the listing ends in success with this step
ListingSucceeds == RdsCallOpen /\ rdsPc # "done" /\ rdsPc' = "done" /\ rdsResult'.kind = "Ok"

FailedLookups(log) == {log[i].arn : i \in {j \in 1..Len(log) : log[j].outcome # "Ok"}}

\* C24 as stated: a call that finds a partial entry of age below cache_ttl
\* returns the stored list and makes no tag lookup.
C24_PartialEntryServed_AsStated ==
    (RdsCallOpen /\ AgeAtCall < cache_ttl /\ Partial(atCall.entry, filters))
        => ServedFromCache

\* C24: a listing that ends in success after failed tag lookups stores, with
\* the clock of that moment, the list it returns, which holds none of the
\* instances whose lookup failed; a call that finds a partial entry whose age
\* is at least 0 and below cache_ttl returns the stored list, without the
\* missing instance, and sends nothing to the directory.
C24_PartialListingCached ==
    /\ [][(ListingSucceeds /\ FailedLookups(rdsLog') # {}) =>
            /\ cache'[filters] = CacheEntry(rdsResult'.instances, now)
            /\ \A inst \in Range(rdsResult'.instances) :
                    inst.db_instance_arn[1] \notin FailedLookups(rdsLog')]_vars
    /\ [](RdsCallOpen /\ 0 <= AgeAtCall /\ AgeAtCall < cache_ttl
                /\ Partial(atCall.entry, filters)
            => /\ rdsPc = "done"
               /\ rdsOps = 0
               /\ rdsLog = <<>>
               /\ rdsResult = RdsOk(atCall.entry.instances)
               /\ cache[filters] = atCall.entry)

\* a call is served from an entry that lacks db-a, whose lookup had failed
C24_Witness ==
    /\ ServedFromCache
    /\ filters = <<TagFilter(Str_env, Str_prd)>>
    /\ Partial(atCall.entry, filters)
    /\ rdsResult = RdsOk(<<InstB>>)
    /\ InstA \in Passing(filters)

\* ---------------------------------------------------------------------------
\* The registry over time
\* ---------------------------------------------------------------------------

\* the label values of a point in the order its map yields its keys
ValuesOfPoint(metric) ==
    [i \in 1..Len(metric.additional_tags) |-> metric.additional_tags[i].value]

\* the step sets the cell lv of series n: publish is on a point of that
\* series with these label values, and the cell takes the point's value
SetsCell(n, lv) ==
    /\ pubBatch # <<>>
    /\ create_metric_name(Head(pubBatch)) = n
    /\ ValuesOfPoint(Head(pubBatch)) = lv
    /\ METRICS'[n].cells[lv] = Head(pubBatch).value

\* C25: no step removes a series from the registry or from the map, changes
\* its label names or removes one of its cells; the value of a cell changes
\* only when publish sets that cell; and a snapshot holds every cell of every
\* registered series with the value it has then, so with the last value set.
C25_RegistryOnlyGrows ==
    /\ [][/\ REGISTRY \subseteq REGISTRY'
          /\ \A n \in DOMAIN METRICS :
                METRICS[n].present =>
                    /\ METRICS'[n].present
                    /\ n \in REGISTRY'
                    /\ METRICS'[n].label_names = METRICS[n].label_names
                    /\ \A lv \in DOMAIN METRICS[n].cells :
                        /\ lv \in DOMAIN METRICS'[n].cells
                        /\ METRICS'[n].cells[lv] # METRICS[n].cells[lv]
                            => SetsCell(n, lv)]_vars
    /\ [][(servePc = "idle" /\ servePc' = "encode") =>
            \A n \in REGISTRY : \A lv \in DOMAIN METRICS[n].cells :
                [name |-> n, label_names |-> METRICS[n].label_names,
                 values |-> lv, value |-> METRICS[n].cells[lv]] \in gathered']_vars

\* a snapshot taken while an empty batch is published holds two cells set by
\* earlier batches
C25_Witness ==
    /\ servePc = "encode"
    /\ pubPc = "loop"
    /\ pubBatch = <<>>
    /\ pubLog = <<>>
    /\ pubBefore = METRICS
    /\ Cardinality(gathered) >= 2
    /\ gathered \subseteq everSet
    /\ \A c \in gathered :
        c.values \in DOMAIN METRICS[c.name].cells /\ METRICS[c.name].cells[c.values] = c.value

\* ---------------------------------------------------------------------------
\* Series creation through several handles
\* ---------------------------------------------------------------------------

InMap == {n \in DOMAIN METRICS : METRICS[n].present}

\* the handles inside get_or_create_metric, the guard taken
Inside == {h \in Handles : thPc[h] \in {"get", "new", "register", "insert"}}

SeriesOf(h) == create_metric_name(thPoint[h])

\* C26: at most one handle is inside get_or_create_metric; while none is, the
\* names in the METRICS map are the names registered in REGISTRY, and while
\* one is, they differ at most by the series that handle has registered and
\* is about to insert; no handle is ever refused a registration for a
\* duplicate; and a handle that was returned a gauge holds the series that
\* is in the map and in the registry under its name.
C26_SeriesCreatedOnce ==
    /\ Cardinality(Inside) <= 1
    /\ Inside = {} => InMap = REGISTRY
    /\ InMap \subseteq REGISTRY
    /\ \A n \in REGISTRY \ InMap :
            \E h \in Inside : thPc[h] = "insert" /\ SeriesOf(h) = n
    /\ \A h \in Handles :
        /\ thResult[h] # "RegisterErr"
        /\ thResult[h] = "Ok" =>
                SeriesOf(h) \in InMap /\ SeriesOf(h) \in REGISTRY

\* two handles are on points of the same new series: one has registered it
\* and is about to insert it, the other waits for the guard
C26_Witness ==
    /\ thPc[1] = "insert"
    /\ thPc[2] = "lock"
    /\ SeriesOf(1) = SeriesOf(2)
    /\ SeriesOf(1) \notin InMap
    /\ SeriesOf(1) \in REGISTRY

=========================================================================
